---- MODULE Spec2Model ----
(***************************************************************************)
(* Proposal store, duplicate detector and extraction fallback of the       *)
(* solventacion repository, as state machines.                             *)
(*                                                                         *)
(*   Spec      the SQLite store (src/database.py) driven by writers that  *)
(*             run DuplicateDetector.verificar_propuesta and then the      *)
(*             store operation it recommends.                              *)
(***************************************************************************)
EXTENDS Integers, Sequences, FiniteSets, TLC

(* ------------------------------------------------------------------ *)
(* Bounds                                                               *)
(* ------------------------------------------------------------------ *)
NumWriters == 2
MaxLen == 2

Writers == 1..NumWriters

(* Python's None *)
None == "None"

(* ------------------------------------------------------------------ *)
(* Texts and the content fingerprint                                    *)
(* ------------------------------------------------------------------ *)
Chars == {"a", "|"}

TextsUpTo(n) == UNION {[1..k -> Chars] : k \in 0..n}

(* the two characters the f-string of calcular_hash puts between the texts *)
Separador == <<"|", "|">>

(* Database.calcular_hash: sha256(f"{obs}||{prop}").  The digest is taken
   to be injective on its input, so a digest is identified with the bytes
   it was computed from. *)
calcular_hash(observacion_texto, propuesta_texto) ==
    observacion_texto \o Separador \o propuesta_texto

(* Python's `x or ''` for a text argument *)
OrVacio(texto) == IF texto = None \/ texto = <<>> THEN <<>> ELSE texto

(* ------------------------------------------------------------------ *)
(* The store: tables of src/database.py                                 *)
(* ------------------------------------------------------------------ *)
EnteIds == {1, 2}
FuenteIds == {1, 2}

(* what callers submit: plain texts and their styled markup *)
ObsTexts == {<<>>, <<"|">>}
PropTexts == {<<"a">>, <<"|", "a">>}
M1 == [obs |-> "<p>o</p>", prop |-> "<p>p</p>"]
M2 == [obs |-> "<b>o</b>", prop |-> "<i>p</i>"]
Markups == {M2}

(* the (entity, funding source) scopes the writers submit to *)
Alcances == {<<1, 1>>, <<2, 1>>, <<1, 2>>}

(* every text pair in scope (1, 1); the pair of one row of that scope in
   the other scopes, and the pair another entity holds *)
Tuplas == {t \in [ente_id : EnteIds, fuente_id : FuenteIds,
                  observacion_texto : ObsTexts, propuesta_texto : PropTexts,
                  markup : Markups] :
              /\ <<t.ente_id, t.fuente_id>> \in Alcances
              /\ \/ <<t.ente_id, t.fuente_id>> = <<1, 1>>
                 \/ t.propuesta_texto = <<"a">>}

(* a row of propuestas, as the INSERT of insertar_propuesta fills it *)
FilaPropuesta(id, ente_id, fuente_id, obs, prop, markup, version, fecha) ==
    [id |-> id, ente_id |-> ente_id, fuente_financiamiento_id |-> fuente_id,
     observacion_texto |-> obs, propuesta_texto |-> prop,
     observacion_html |-> markup.obs, propuesta_html |-> markup.prop,
     hash_contenido |-> calcular_hash(OrVacio(obs), prop),
     version_actual |-> version, fecha_creacion |-> fecha]

(* a row of versiones_propuestas, as the INSERT of crear_version fills it *)
FilaVersion(propuesta_id, version, obs, prop, obs_html, prop_html, hash, motivo) ==
    [propuesta_id |-> propuesta_id, version |-> version,
     observacion_texto |-> obs, propuesta_texto |-> prop,
     observacion_html |-> obs_html, propuesta_html |-> prop_html,
     hash_contenido |-> hash, motivo_cambio |-> motivo]

(* the snapshot of a row's present state *)
VersionDeFila(fila, motivo) ==
    FilaVersion(fila.id, fila.version_actual, fila.observacion_texto,
                fila.propuesta_texto, fila.observacion_html, fila.propuesta_html,
                fila.hash_contenido, motivo)

(* Database.__init__ opens the file at db_path and creates the tables only
   if they are missing (CREATE TABLE IF NOT EXISTS): the store starts from
   the file it finds.  The files drawn here satisfy the schema (UNIQUE
   hash_contenido, UNIQUE (propuesta_id, version)) and hold, for each row,
   the history the statements of insertar_propuesta and
   actualizar_propuesta_con_version write. *)
FilaA == FilaPropuesta(1, 1, 1, <<>>, <<"a">>, M1, 1, 1)
FilaB == FilaPropuesta(2, 1, 1, <<"|">>, <<"|", "a">>, M1, 2, 1)
FilaC == FilaPropuesta(3, 2, 1, <<"|">>, <<"a">>, M2, 1, 2)

BaseVacia == [propuestas |-> {}, versiones |-> {}]
BaseUnaFila == [propuestas |-> {FilaA},
                versiones |-> {VersionDeFila(FilaA, "Versión inicial")}]
BaseTresFilas ==
    [propuestas |-> {FilaA, FilaB, FilaC},
     versiones |-> {VersionDeFila(FilaA, "Versión inicial"),
                    FilaVersion(2, 1, <<"|">>, <<"a", "a">>, M1.obs, M1.prop,
                                calcular_hash(<<"|">>, <<"a", "a">>), "Versión inicial"),
                    VersionDeFila(FilaB, "Actualización"),
                    VersionDeFila(FilaC, "Versión inicial")}]

BasesIniciales == {BaseVacia, BaseUnaFila, BaseTresFilas}

VARIABLES
    entes,          \* committed rows of table entes
    fuentes,        \* committed rows of table fuentes_financiamiento
    propuestas,     \* committed rows of table propuestas
    versiones,      \* committed rows of table versiones_propuestas
    candado,        \* the connection that holds the database's write lock
    use_ai,         \* DuplicateDetector.use_ai
    pc,             \* where each writer stands
    req,            \* the tuple a writer is submitting
    intento,        \* 1: first submission of req, 2: the same tuple again
    primera,        \* how the first submission of req was classified
    res,            \* what verificar_propuesta returned
    err,            \* the exception the writer's call raised
    pend,           \* the uncommitted write of the writer's open connection
    ctx             \* locals of the running call, kept until the writer moves on

storeVars == <<entes, fuentes, propuestas, versiones, candado, use_ai, pc, req,
               intento, primera, res, err, pend, ctx>>

VARIABLES
    par1, par2,         \* two (observation, proposal) text pairs
    huella1, huella2    \* calcular_hash of each, once computed

hashVars == <<par1, par2, huella1, huella2>>

VARIABLES
    api_key,        \* OPENAI_API_KEY is set to a non-empty value
    openai_ok,      \* `from openai import OpenAI` and OpenAI(api_key=...) succeed
    proc,           \* the two module-level processors: use_openai_fallback, openai_client
    doc,            \* the document being processed
    dpc,            \* where process_docx / process_xlsx stands
    dprops,         \* its local list `propuestas`
    hoja,           \* the sheet the fallback loop of process_xlsx is at
    llamadas,       \* the calls of extraer_con_openai for this document
    salida          \* the dict the function returned

docVars == <<api_key, openai_ok, proc, doc, dpc, dprops, hoja, llamadas, salida>>

VARIABLES
    e_tipo,         \* kind of the document under structural extraction
    e_pc,           \* where extraer_propuestas_estructuradas stands
    e_fila,         \* the row its loop is at
    e_props,        \* propuestas, the list it builds
    e_numero,       \* numero (DOCX), numero_global (XLSX)
    e_bloque,       \* the table (DOCX) or sheet (XLSX) the loop is in
    e_filas,        \* rows read so far
    e_cabecera      \* XLSX: the first row of the sheet, read as the column names

estrVars == <<e_tipo, e_pc, e_fila, e_props, e_numero, e_bloque, e_filas, e_cabecera>>

VARIABLES
    m_nombre,       \* nombre_archivo given to analizar_archivo
    m_ente,         \* metadatos['ente']
    m_fuentes,      \* metadatos['fuentes_financiamiento']
    m_periodo,      \* metadatos['periodo']
    m_tipo          \* metadatos['tipo_documento']

metaVars == <<m_nombre, m_ente, m_fuentes, m_periodo, m_tipo>>

VARIABLES
    v_pc,           \* where the caller of validar_archivo is
    v_contenido,    \* contenido_extraido given to validar_archivo
    v_reporte,      \* what validar_archivo returned last
    v_reportes      \* validator.reportes

valVars == <<v_pc, v_contenido, v_reporte, v_reportes>>

VARIABLES
    c_pc,           \* where the caller of agregar_datos_archivo is
    c_archivo,      \* the metadatos and the proposals of the file at hand
    c_datos         \* consolidator.datos_consolidados

consVars == <<c_pc, c_archivo, c_datos>>

VARIABLES
    b_pc,           \* where procesar_todos is
    b_archivos,     \* what buscar_archivos found, each with what processing it meets
    b_idx,          \* the file the loop of procesar_todos is at
    b_stats,        \* BatchProcessor.stats
    b_resultados,   \* resultados of procesar_todos
    b_datos         \* datos of the consolidator: for each record, the file it is of

batchVars == <<b_pc, b_archivos, b_idx, b_stats, b_resultados, b_datos>>

VARIABLES
    j_pc,           \* where the semantic step of verificar_propuesta is
    j_use_ai,       \* DuplicateDetector.use_ai
    j_filas,        \* propuestas_fuente: the ids of the rows of the scope, in order
    j_juicio,       \* what the service answers for each row, by the row's id
    j_acc,          \* mejor_similitud, mejor_match and resultado_ia after the loop
    j_res           \* what verificar_propuesta returns

juezVars == <<j_pc, j_use_ai, j_filas, j_juicio, j_acc, j_res>>

VARIABLES
    g_tablas,       \* committed rows of entes and fuentes_financiamiento
    g_seq,          \* AUTOINCREMENT: the largest id each table has given
    g_candado,      \* the caller whose connection holds the write lock
    g_pc,           \* where each caller of get_or_create_* stands
    g_llamada,      \* the table and the name of the running call
    g_llamadas,     \* calls each caller has made
    g_pend,         \* the uncommitted row of the caller's connection
    g_ret,          \* what the call returned
    g_err           \* the exception the call raised

catVars == <<g_tablas, g_seq, g_candado, g_pc, g_llamada, g_llamadas, g_pend, g_ret, g_err>>

(* the variables of the other components, for the frame of the store's,
   the fingerprint's and the document's actions *)
otrasVars == <<estrVars, metaVars, valVars, consVars, batchVars, juezVars, catVars>>

vars == <<storeVars, hashVars, docVars, otrasVars>>

(* the frame of each added component: everything but its own variables *)
sinEstr ==
    <<storeVars, hashVars, docVars, metaVars, valVars, consVars, batchVars, juezVars, catVars>>
sinMeta ==
    <<storeVars, hashVars, docVars, estrVars, valVars, consVars, batchVars, juezVars, catVars>>
sinVal ==
    <<storeVars, hashVars, docVars, estrVars, metaVars, consVars, batchVars, juezVars, catVars>>
sinBatch ==
    <<storeVars, hashVars, docVars, estrVars, metaVars, valVars, consVars, juezVars, catVars>>
sinJuez ==
    <<storeVars, hashVars, docVars, estrVars, metaVars, valVars, consVars, batchVars, catVars>>
sinCat ==
    <<storeVars, hashVars, docVars, estrVars, metaVars, valVars, consVars, batchVars, juezVars>>
sinCons ==
    <<storeVars, hashVars, docVars, estrVars, metaVars, valVars, batchVars, juezVars, catVars>>

(* ------------------------------------------------------------------ *)
(* SQLite connections (Database.get_connection)                         *)
(* ------------------------------------------------------------------ *)
SinCandado == <<0, "none">>
ConexionExterna(w) == <<w, "outer">>     \* the `with` of the operation itself
ConexionInterna(w) == <<w, "inner">>     \* the `with` of crear_version

NuncaOcupada(holder, conn) == FALSE

(* sqlite3.connect gives every get_connection() its own connection.  A
   connection's first INSERT/UPDATE takes the database's write lock, held
   until its commit or rollback; while another connection holds it the
   statement finds the database busy and, once the busy timeout is over,
   raises sqlite3.OperationalError("database is locked"). *)
Ocupada(holder, conn) == holder # SinCandado /\ holder # conn

(* AUTOINCREMENT: one more than the largest rowid *)
Max(S) == IF S = {} THEN 0 ELSE CHOOSE x \in S : \A y \in S : y <= x
Min(S) == CHOOSE x \in S : \A y \in S : x <= y
SiguienteId(filas) == Max({f.id : f \in filas}) + 1

(* the UNIQUE constraint of column hash_contenido: over the whole table *)
ViolaHashUnique(filas, fila) ==
    \E f \in filas : f.id # fila.id /\ f.hash_contenido = fila.hash_contenido

(* UNIQUE(propuesta_id, version) of versiones_propuestas *)
ViolaVersionUnique(vers, v) ==
    \E x \in vers : x.propuesta_id = v.propuesta_id /\ x.version = v.version

(* no row: what fetchone() gives when nothing matches (Python's None) *)
SinId == 0
FilaNula == FilaPropuesta(SinId, 0, 0, <<>>, <<>>, M1, 0, 0)

(* a lookup that finds no row, whatever the store holds *)
buscar_sin_hallar(filas, hash_contenido, ente_id, fuente_id) == FilaNula

(* Database.buscar_propuesta_existente: fetchone() of the rows with this
   hash, entity and funding source *)
buscar_propuesta_existente(filas, hash_contenido, ente_id, fuente_id) ==
    LET halladas == {f \in filas : /\ f.hash_contenido = hash_contenido
                                   /\ f.ente_id = ente_id
                                   /\ f.fuente_financiamiento_id = fuente_id}
    IN IF halladas = {} THEN FilaNula
       ELSE CHOOSE f \in halladas : f.id = Min({g.id : g \in halladas})

(* Database.obtener_propuestas_por_ente: the entity's rows that join both
   name tables, ORDER BY fecha_creacion DESC; rows created in the same
   second come in either order *)
obtener_propuestas_por_ente(filas, ente_id) ==
    LET S == {f \in filas : /\ f.ente_id = ente_id
                            /\ \E e \in entes : e.id = f.ente_id
                            /\ \E u \in fuentes : u.id = f.fuente_financiamiento_id}
        n == Cardinality(S)
    IN {o \in [1..n -> S] :
           /\ \A i, j \in 1..n : i # j => o[i] # o[j]
           /\ \A i, j \in 1..n : i < j => o[i].fecha_creacion >= o[j].fecha_creacion}

(* ------------------------------------------------------------------ *)
(* The similarity judge (DuplicateDetector.detectar_duplicado_con_ia)   *)
(* ------------------------------------------------------------------ *)
(* a JSON value of the judge's answer, by its Python type; booleans are
   held as 0/1 *)
Num(n) == [t |-> "num", v |-> n]
Bool(b) == [t |-> "bool", v |-> IF b THEN 1 ELSE 0]
Cadena == [t |-> "str", v |-> 1]          \* a non-empty string, e.g. "false"
Falta == [t |-> "missing", v |-> 0]       \* the key is not in the object

(* Python truthiness *)
Truthy(x) == x.v # 0

Objeto(similitud, es_duplicado, es_version) ==
    [kind |-> "objeto", similitud |-> similitud,
     es_duplicado |-> es_duplicado, es_version |-> es_version]
OtraRespuesta(kind) ==
    [kind |-> kind, similitud |-> Falta, es_duplicado |-> Falta, es_version |-> Falta]

Similitudes == {80, 95}

(* answers that are what the prompt asks for *)
RespuestasValidas ==
    {Objeto(Num(0), Bool(FALSE), Bool(FALSE))} \cup
    {Objeto(Num(s), Bool(f[1]), Bool(f[2])) :
        s \in Similitudes, f \in {<<FALSE, FALSE>>, <<TRUE, FALSE>>, <<FALSE, TRUE>>}}

(* the ways the judgment fails: the call raises, the text is no JSON, the
   JSON is no object, a field is missing or has the wrong type *)
RespuestasFallidas ==
    {OtraRespuesta("llamada_falla"), OtraRespuesta("no_json"), OtraRespuesta("no_objeto"),
     Objeto(Falta, Bool(FALSE), Bool(FALSE)),
     Objeto(Cadena, Bool(FALSE), Bool(FALSE)),
     Objeto(Num(95), Falta, Bool(FALSE)),
     Objeto(Num(80), Bool(FALSE), Cadena)}

Respuestas == RespuestasValidas \cup RespuestasFallidas

(* the dict both the `not self.use_ai` branch and the except branch return *)
SinSimilitud == Objeto(Num(0), Bool(FALSE), Bool(FALSE))

(* DuplicateDetector.detectar_duplicado_con_ia, given what the service
   answers: the parsed JSON is returned as it is *)
detectar_duplicado_con_ia(usar, respuesta) ==
    IF ~usar THEN SinSimilitud
    ELSE IF respuesta.kind \in {"llamada_falla", "no_json"} THEN SinSimilitud
    ELSE respuesta

(* ------------------------------------------------------------------ *)
(* DuplicateDetector.verificar_propuesta                                *)
(* ------------------------------------------------------------------ *)
UmbralDuplicado == 95
UmbralVersion == 70

Resultado(accion, exacto, semantico, version, id, similitud) ==
    [accion_recomendada |-> accion, es_duplicado_exacto |-> exacto,
     es_duplicado_semantico |-> semantico, es_nueva_version |-> version,
     propuesta_existente_id |-> id, similitud |-> similitud,
     excepcion |-> None]

(* nothing returned: the call raised `excepcion` *)
Lanza(excepcion) ==
    [accion_recomendada |-> "ninguna", es_duplicado_exacto |-> FALSE,
     es_duplicado_semantico |-> FALSE, es_nueva_version |-> FALSE,
     propuesta_existente_id |-> SinId, similitud |-> 0,
     excepcion |-> excepcion]

SinResultado == Lanza(None)

(* step 1, lines 150-163: the exact match by fingerprint *)
DuplicadoExacto(existente) ==
    Resultado("marcar_duplicado", TRUE, FALSE, FALSE, existente.id, 100)

(* step 2, lines 171-187: the loop over the rows of the scope.  acc holds
   mejor_similitud, mejor_match, resultado_ia and the exception raised by
   resultado['similitud'] or by its comparison *)
AccInicial ==
    [mejor_similitud |-> 0, mejor_match |-> SinId, resultado_ia |-> SinSimilitud,
     hay_resultado |-> FALSE, excepcion |-> None]

RECURSIVE BucleSimilitud(_, _, _, _)
BucleSimilitud(usar, orden, juicio, acc) ==
    IF orden = <<>> \/ acc.excepcion # None THEN acc
    ELSE LET fila == Head(orden)
             resultado == detectar_duplicado_con_ia(usar, juicio[fila.id])
             sig ==
                IF resultado.kind # "objeto"
                    THEN [acc EXCEPT !.excepcion = "TypeError"]
                ELSE IF resultado.similitud.t = "missing"
                    THEN [acc EXCEPT !.excepcion = "KeyError"]
                ELSE IF resultado.similitud.t # "num"
                    THEN [acc EXCEPT !.excepcion = "TypeError"]
                ELSE IF resultado.similitud.v > acc.mejor_similitud
                    THEN [mejor_similitud |-> resultado.similitud.v,
                          mejor_match |-> fila.id, resultado_ia |-> resultado,
                          hay_resultado |-> TRUE, excepcion |-> None]
                ELSE acc
         IN BucleSimilitud(usar, Tail(orden), juicio, sig)

(* steps 3 and 4 by the score alone, whatever the judgment marks *)
DecidirPorPuntaje(acc) ==
    IF acc.excepcion # None THEN Lanza(acc.excepcion)
    ELSE IF acc.mejor_similitud >= UmbralDuplicado /\ acc.hay_resultado
        THEN Resultado("marcar_duplicado", FALSE, TRUE, FALSE,
                       acc.mejor_match, acc.mejor_similitud)
    ELSE IF acc.mejor_similitud >= UmbralVersion /\ acc.hay_resultado
        THEN Resultado("crear_version", FALSE, FALSE, TRUE,
                       acc.mejor_match, acc.mejor_similitud)
    ELSE Resultado("insertar", FALSE, FALSE, FALSE, SinId,
                   IF acc.mejor_match # SinId THEN acc.mejor_similitud ELSE 0)

(* steps 3 and 4, lines 189-224: `a and b and c` reads the flag only when
   the score passed the threshold and a best match was kept *)
Decidir(acc) ==
    IF acc.excepcion # None THEN Lanza(acc.excepcion)
    ELSE IF acc.mejor_similitud >= UmbralDuplicado /\ acc.hay_resultado
              /\ acc.resultado_ia.es_duplicado.t = "missing"
        THEN Lanza("KeyError")
    ELSE IF acc.mejor_similitud >= UmbralDuplicado /\ acc.hay_resultado
              /\ Truthy(acc.resultado_ia.es_duplicado)
        THEN Resultado("marcar_duplicado", FALSE, TRUE, FALSE,
                       acc.mejor_match, acc.mejor_similitud)
    ELSE IF acc.mejor_similitud >= UmbralVersion /\ acc.hay_resultado
              /\ acc.resultado_ia.es_version.t = "missing"
        THEN Lanza("KeyError")
    ELSE IF acc.mejor_similitud >= UmbralVersion /\ acc.hay_resultado
              /\ Truthy(acc.resultado_ia.es_version)
        THEN Resultado("crear_version", FALSE, FALSE, TRUE,
                       acc.mejor_match, acc.mejor_similitud)
    ELSE Resultado("insertar", FALSE, FALSE, FALSE, SinId,
                   IF acc.mejor_match # SinId THEN acc.mejor_similitud ELSE 0)

(* the rows of obtener_propuestas_por_ente, whatever their funding source *)
SinFiltrarFuente(orden, fuente_id) == orden

(* the rows of obtener_propuestas_por_ente with this funding source, in
   the order the query gave them *)
RECURSIVE FiltrarFuente(_, _)
FiltrarFuente(orden, fuente_id) ==
    IF orden = <<>> THEN <<>>
    ELSE IF Head(orden).fuente_financiamiento_id = fuente_id
        THEN <<Head(orden)>> \o FiltrarFuente(Tail(orden), fuente_id)
    ELSE FiltrarFuente(Tail(orden), fuente_id)

(* ------------------------------------------------------------------ *)
(* Writers: verificar_propuesta, then the store operation it recommends *)
(* ------------------------------------------------------------------ *)
TuplaNula == [ente_id |-> 0, fuente_id |-> 0, observacion_texto |-> <<>>,
              propuesta_texto |-> <<>>, markup |-> M1]

(* locals of the running call (propuesta_id, nueva_version), and what the
   store and the judge looked like to it: the table sizes and the rows of
   the tuple's scope when it was submitted, the row as the SELECT of the
   update found it, how the judge answered *)
CtxInicial(filas, vers, t) ==
    [cuenta0 |-> Cardinality(filas), versiones0 |-> Cardinality(vers),
     en_alcance0 |-> Cardinality({f \in filas :
                        /\ f.ente_id = t.ente_id
                        /\ f.fuente_financiamiento_id = t.fuente_id}),
     juez |-> "sin_juicio",
     antes |-> FilaNula, nueva_version |-> 0, propuesta_id |-> SinId]

(* what the caller of verificar_propuesta does with accion_recomendada:
   'insertar' -> insertar_propuesta, 'crear_version' ->
   actualizar_propuesta_con_version on propuesta_existente_id,
   'marcar_duplicado' -> no new row *)
AccionSiguiente(accion) ==
    IF accion = "insertar" THEN "ins_insert"
    ELSE IF accion = "crear_version" THEN "upd_select"
    ELSE "done"

(* how a classification is remembered when the same tuple is sent again *)
Clase(r) ==
    IF r.es_duplicado_exacto THEN "exacto"
    ELSE IF r.es_duplicado_semantico THEN "semantico"
    ELSE IF r.es_nueva_version THEN "crear_version"
    ELSE r.accion_recomendada

StoreInit ==
    /\ \E base \in BasesIniciales :
          /\ propuestas = base.propuestas
          /\ versiones = base.versiones
    /\ entes = {[id |-> 1, nombre |-> "FIDECIX"], [id |-> 2, nombre |-> "ITEA"]}
    /\ fuentes = {[id |-> 1, nombre |-> "SA"], [id |-> 2, nombre |-> "PRAS"]}
    /\ candado = SinCandado
    /\ use_ai \in BOOLEAN
    /\ pc = [w \in Writers |-> "idle"]
    /\ req = [w \in Writers |-> TuplaNula]
    /\ intento = [w \in Writers |-> 0]
    /\ primera = [w \in Writers |-> "ninguna"]
    /\ res = [w \in Writers |-> SinResultado]
    /\ err = [w \in Writers |-> None]
    /\ pend = [w \in Writers |-> FilaNula]
    /\ ctx = [w \in Writers |-> CtxInicial({}, {}, TuplaNula)]

(* verificar_propuesta lines 150-163: fingerprint, then
   buscar_propuesta_existente on a connection of its own *)
PasoExacto(w, t, n, antes) ==
    LET hash_contenido == calcular_hash(OrVacio(t.observacion_texto), t.propuesta_texto)
        existente == buscar_propuesta_existente(propuestas, hash_contenido,
                                                t.ente_id, t.fuente_id)
        r == IF existente.id # SinId THEN DuplicadoExacto(existente) ELSE SinResultado
    IN /\ req' = [req EXCEPT ![w] = t]
       /\ intento' = [intento EXCEPT ![w] = n]
       /\ primera' = [primera EXCEPT ![w] = antes]
       /\ res' = [res EXCEPT ![w] = r]
       /\ err' = [err EXCEPT ![w] = None]
       /\ ctx' = [ctx EXCEPT ![w] = CtxInicial(propuestas, versiones, t)]
       /\ pc' = [pc EXCEPT ![w] = IF existente.id # SinId
                                    THEN AccionSiguiente(r.accion_recomendada)
                                    ELSE "semantic"]
       /\ UNCHANGED <<hashVars, docVars, otrasVars, entes, fuentes, propuestas, versiones,
                      candado, use_ai, pend>>

(* a writer submits a tuple *)
Verificar(w) ==
    /\ pc[w] = "idle"
    /\ \E t \in Tuplas : PasoExacto(w, t, 1, "ninguna")

(* the writer submits the same tuple once more, after verificar_propuesta
   classified it new or an exact duplicate and the store operation it
   recommended ended *)
Reenviar(w) ==
    /\ pc[w] = "done"
    /\ intento[w] = 1
    /\ res[w].excepcion = None
    /\ Clase(res[w]) \in {"insertar", "exacto"}
    /\ PasoExacto(w, req[w], 2, Clase(res[w]))

(* verificar_propuesta lines 165-224: the rows of the scope, one judgment
   per row, the decision *)
Semantica(w) ==
    /\ pc[w] = "semantic"
    /\ \E orden \in obtener_propuestas_por_ente(propuestas, req[w].ente_id) :
         LET propuestas_fuente == FiltrarFuente(orden, req[w].fuente_id)
             ids == {propuestas_fuente[i].id : i \in 1..Len(propuestas_fuente)}
         IN \E juicio \in [ids -> IF use_ai THEN Respuestas ELSE {SinSimilitud}] :
              LET r == Decidir(BucleSimilitud(use_ai, propuestas_fuente, juicio, AccInicial))
                  juez == IF ids = {} THEN "sin_juicio"
                          ELSE IF ~use_ai THEN "fallido"
                          ELSE IF \A i \in ids : juicio[i] \in RespuestasFallidas
                              THEN "fallido"
                          ELSE IF \A i \in ids : juicio[i] \in RespuestasValidas
                              THEN "valido"
                          ELSE "mixto"
              IN /\ res' = [res EXCEPT ![w] = r]
                 /\ ctx' = [ctx EXCEPT ![w].juez = juez]
                 /\ err' = [err EXCEPT ![w] = r.excepcion]
                 /\ pc' = [pc EXCEPT ![w] = IF r.excepcion # None THEN "done"
                                              ELSE AccionSiguiente(r.accion_recomendada)]
    /\ UNCHANGED <<hashVars, docVars, otrasVars, entes, fuentes, propuestas, versiones,
                   candado, use_ai, req, intento, primera, pend>>

(* get_connection's except branch: rollback, close, re-raise *)
Falla(w, excepcion) ==
    /\ pend' = [pend EXCEPT ![w] = FilaNula]
    /\ candado' = IF candado = ConexionExterna(w) THEN SinCandado ELSE candado
    /\ err' = [err EXCEPT ![w] = excepcion]
    /\ pc' = [pc EXCEPT ![w] = "done"]
    /\ UNCHANGED <<propuestas, versiones>>

(* CURRENT_TIMESTAMP of a new row: not before the second of the newest row.
   The same second leaves the order of the two rows open, which covers the
   order a later second gives. *)
FechaNueva(filas) == Max({f.fecha_creacion : f \in filas})

(* insertar_propuesta lines 203-219: the INSERT on the operation's own
   connection *)
InsertarInsert(w) ==
    /\ pc[w] = "ins_insert"
    /\ LET t == req[w]
           fecha == FechaNueva(propuestas)
           fila == FilaPropuesta(SiguienteId(propuestas), t.ente_id, t.fuente_id,
                                   t.observacion_texto, t.propuesta_texto, t.markup,
                                   1, fecha)
       IN IF Ocupada(candado, ConexionExterna(w))
                THEN Falla(w, "OperationalError") /\ UNCHANGED ctx
            ELSE IF ViolaHashUnique(propuestas, fila)
                THEN Falla(w, "IntegrityError") /\ UNCHANGED ctx
            ELSE /\ pend' = [pend EXCEPT ![w] = fila]
                 /\ candado' = ConexionExterna(w)
                 /\ ctx' = [ctx EXCEPT ![w].propuesta_id = fila.id]
                 /\ pc' = [pc EXCEPT ![w] = "ins_version"]
                 /\ UNCHANGED <<propuestas, versiones, err>>
    /\ UNCHANGED <<hashVars, docVars, otrasVars, entes, fuentes, use_ai, req, intento, primera, res>>

(* crear_version called from inside the caller's `with`: it opens a second
   connection (line 241), inserts the snapshot and commits it there; then
   the caller's `with` ends and commits the row.  Either commit can fail. *)
PasoCrearVersion(w, motivo_cambio) ==
    LET fila == pend[w]
        snapshot == VersionDeFila(fila, motivo_cambio)
    IN IF Ocupada(candado, ConexionInterna(w))
           THEN Falla(w, "OperationalError")
       ELSE IF ViolaVersionUnique(versiones, snapshot)
           THEN Falla(w, "IntegrityError")
       ELSE \E commit \in {"ok", "falla_interno", "falla_externo"} :
              /\ versiones' = IF commit = "falla_interno" THEN versiones
                               ELSE versiones \cup {snapshot}
              /\ propuestas' = IF commit = "ok"
                                THEN {f \in propuestas : f.id # fila.id} \cup {fila}
                                ELSE propuestas
              /\ err' = [err EXCEPT ![w] = IF commit = "ok" THEN None
                                            ELSE "OperationalError"]
              /\ pend' = [pend EXCEPT ![w] = FilaNula]
              /\ candado' = IF candado = ConexionExterna(w) THEN SinCandado ELSE candado
              /\ pc' = [pc EXCEPT ![w] = "done"]

(* insertar_propuesta lines 221-226 *)
InsertarCrearVersion(w) ==
    /\ pc[w] = "ins_version"
    /\ PasoCrearVersion(w, "Versión inicial")
    /\ UNCHANGED <<hashVars, docVars, otrasVars, entes, fuentes, use_ai, req, intento, primera, res, ctx>>

(* actualizar_propuesta_con_version lines 255-262: SELECT version_actual;
   row[0] of no row raises TypeError *)
ActualizarSelect(w) ==
    /\ pc[w] = "upd_select"
    /\ LET filas == {f \in propuestas : f.id = res[w].propuesta_existente_id}
       IN IF filas = {}
              THEN Falla(w, "TypeError") /\ UNCHANGED ctx
          ELSE LET fila == CHOOSE f \in filas : TRUE
               IN /\ ctx' = [ctx EXCEPT ![w].propuesta_id = fila.id,
                                         ![w].nueva_version = fila.version_actual + 1,
                                         ![w].antes = fila]
                  /\ pc' = [pc EXCEPT ![w] = "upd_update"]
                  /\ UNCHANGED <<propuestas, versiones, candado, err, pend>>
    /\ UNCHANGED <<hashVars, docVars, otrasVars, entes, fuentes, use_ai, req, intento, primera, res>>

(* the UPDATE of lines 268-276 without its hash_contenido column *)
FilaActualizadaSinHuella(fila, t, nueva_version) ==
    [fila EXCEPT !.observacion_texto = t.observacion_texto,
                 !.propuesta_texto = t.propuesta_texto,
                 !.observacion_html = t.markup.obs,
                 !.propuesta_html = t.markup.prop,
                 !.version_actual = nueva_version]

(* the row as the UPDATE of lines 268-276 leaves it *)
FilaActualizada(fila, t, nueva_version) ==
    [fila EXCEPT !.observacion_texto = t.observacion_texto,
                 !.propuesta_texto = t.propuesta_texto,
                 !.observacion_html = t.markup.obs,
                 !.propuesta_html = t.markup.prop,
                 !.hash_contenido = calcular_hash(OrVacio(t.observacion_texto),
                                                  t.propuesta_texto),
                 !.version_actual = nueva_version]

(* actualizar_propuesta_con_version lines 264-276: the UPDATE *)
ActualizarUpdate(w) ==
    /\ pc[w] = "upd_update"
    /\ LET filas == {f \in propuestas : f.id = ctx[w].propuesta_id}
       IN IF Ocupada(candado, ConexionExterna(w))
              THEN Falla(w, "OperationalError")
          ELSE IF filas = {}
              THEN /\ pend' = [pend EXCEPT ![w] = FilaNula]
                   /\ candado' = ConexionExterna(w)
                   /\ pc' = [pc EXCEPT ![w] = "upd_version"]
                   /\ UNCHANGED <<propuestas, versiones, err>>
          ELSE LET nueva == FilaActualizada(CHOOSE f \in filas : TRUE, req[w],
                                            ctx[w].nueva_version)
               IN IF ViolaHashUnique(propuestas, nueva)
                      THEN Falla(w, "IntegrityError")
                  ELSE /\ pend' = [pend EXCEPT ![w] = nueva]
                       /\ candado' = ConexionExterna(w)
                       /\ pc' = [pc EXCEPT ![w] = "upd_version"]
                       /\ UNCHANGED <<propuestas, versiones, err>>
    /\ UNCHANGED <<hashVars, docVars, otrasVars, entes, fuentes, use_ai, req, intento, primera, res, ctx>>

(* actualizar_propuesta_con_version lines 278-283 *)
ActualizarCrearVersion(w) ==
    /\ pc[w] = "upd_version"
    /\ PasoCrearVersion(w, "Actualización")
    /\ UNCHANGED <<hashVars, docVars, otrasVars, entes, fuentes, use_ai, req, intento, primera, res, ctx>>

(* the writer turns to its next tuple *)
Terminar(w) ==
    /\ pc[w] = "done"
    /\ pc' = [pc EXCEPT ![w] = "idle"]
    /\ req' = [req EXCEPT ![w] = TuplaNula]
    /\ intento' = [intento EXCEPT ![w] = 0]
    /\ primera' = [primera EXCEPT ![w] = "ninguna"]
    /\ res' = [res EXCEPT ![w] = SinResultado]
    /\ err' = [err EXCEPT ![w] = None]
    /\ ctx' = [ctx EXCEPT ![w] = CtxInicial({}, {}, TuplaNula)]
    /\ UNCHANGED <<hashVars, docVars, otrasVars, entes, fuentes, propuestas, versiones,
                   candado, use_ai, pend>>

StoreNext ==
    \E w \in Writers :
        \/ Verificar(w)
        \/ Reenviar(w)
        \/ Semantica(w)
        \/ InsertarInsert(w)
        \/ InsertarCrearVersion(w)
        \/ ActualizarSelect(w)
        \/ ActualizarUpdate(w)
        \/ ActualizarCrearVersion(w)
        \/ Terminar(w)

(* ------------------------------------------------------------------ *)
(* The fingerprint as a function: two text pairs and their hashes        *)
(* ------------------------------------------------------------------ *)
Pares == [obs : TextsUpTo(MaxLen), prop : TextsUpTo(MaxLen)]
ParVacio == [obs |-> <<>>, prop |-> <<>>]
SinHuella == <<"sin calcular">>

HashIdle ==
    /\ par1 = ParVacio
    /\ par2 = ParVacio
    /\ huella1 = SinHuella
    /\ huella2 = SinHuella

HashInit ==
    /\ par1 \in Pares
    /\ par2 \in Pares
    /\ huella1 = SinHuella
    /\ huella2 = SinHuella

CalcularHash1 ==
    /\ huella1 = SinHuella
    /\ huella1' = calcular_hash(par1.obs, par1.prop)
    /\ UNCHANGED <<par1, par2, huella2, storeVars, docVars, otrasVars>>

CalcularHash2 ==
    /\ huella2 = SinHuella
    /\ huella2' = calcular_hash(par2.obs, par2.prop)
    /\ UNCHANGED <<par1, par2, huella1, storeVars, docVars, otrasVars>>

HashNext == CalcularHash1 \/ CalcularHash2

(* ------------------------------------------------------------------ *)
(* process_docx / process_xlsx: structural extraction, then the         *)
(* generative fallback                                                  *)
(* ------------------------------------------------------------------ *)
MaxCandidatos == 2      \* structural candidates of a document
MaxItems == 2           \* entries of the service's "propuestas" list
MaxHojas == 2           \* sheets of a workbook

Tipos == {"DOCX", "XLSX"}

(* a candidate record, texts by their kind: "texto" stands for a non-empty
   text, "" for the empty one *)
Candidato(numero, observacion_texto, propuesta_texto, metodo) ==
    [numero |-> numero, observacion_texto |-> observacion_texto,
     propuesta_texto |-> propuesta_texto, metodo_extraccion |-> metodo]

(* what extraer_propuestas_estructuradas returns for a document with n
   keyword rows *)
Estructuradas(n) ==
    [i \in 1..n |-> Candidato(i, "texto", "texto", "estructurado")]

(* a value of an entry of the service's JSON: the key is missing, the
   value is no string (null, a number), the empty string, a text *)
ValoresJson == {"falta", "no_texto", "vacio", "texto"}

Item(tipo, observacion, propuesta) ==
    [tipo |-> tipo, observacion |-> observacion, propuesta |-> propuesta]

Items ==
    {Item("objeto", "texto", "texto"), Item("objeto", "falta", "texto"),
     Item("objeto", "texto", "falta"), Item("objeto", "texto", "vacio"),
     Item("objeto", "texto", "no_texto"), Item("otro", "falta", "falta")}

(* what the service answers: the call raises, the text is no JSON, the
   JSON is no object, the object has no "propuestas", "propuestas" is no
   list, or it is a list of entries *)
RespuestaFallback(kind, items) == [kind |-> kind, items |-> items]

RespuestasFallback ==
    {RespuestaFallback(k, <<>>) :
        k \in {"llamada_falla", "no_json", "no_objeto", "sin_clave", "clave_no_lista"}}
    \cup {RespuestaFallback("lista", l) :
            l \in UNION {[1..n -> Items] : n \in 0..MaxItems}}

(* prop.get(clave, defecto) followed by html.escape of it: escape raises
   on a value that is no string *)
GetTexto(valor, defecto) ==
    IF valor = "falta" THEN defecto
    ELSE IF valor = "vacio" THEN ""
    ELSE "texto"

ItemLanza(item) ==
    \/ item.tipo # "objeto"
    \/ item.observacion = "no_texto"
    \/ item.propuesta = "no_texto"

(* extraer_con_openai from the service's answer on (both processors:
   docx lines 370-399, xlsx lines 436-465): everything is inside one try
   whose except returns [] *)
FormatearRespuesta(respuesta) ==
    IF respuesta.kind # "lista" THEN <<>>
    ELSE IF \E i \in 1..Len(respuesta.items) : ItemLanza(respuesta.items[i]) THEN <<>>
    ELSE [i \in 1..Len(respuesta.items) |->
            Candidato(i, GetTexto(respuesta.items[i].observacion, "Sin observación"),
                      GetTexto(respuesta.items[i].propuesta, ""), "openai_fallback")]

(* _init_openai: the client is built when the import works and the key is
   set; any exception leaves the flag False *)
InitOpenai(p, llave, importa) ==
    IF p.openai_client THEN p
    ELSE IF importa /\ llave THEN [use_openai_fallback |-> TRUE, openai_client |-> TRUE]
    ELSE IF ~importa THEN [p EXCEPT !.use_openai_fallback = FALSE]
    ELSE p

(* the processor as extraer_con_openai leaves it before the call *)
ProcesadorListo(p, llave, importa) ==
    IF ~p.use_openai_fallback THEN InitOpenai(p, llave, importa) ELSE p

ProcesadorNuevo == [use_openai_fallback |-> FALSE, openai_client |-> FALSE]

Documentos ==
    [tipo : Tipos, hojas : 1..MaxHojas, abre : BOOLEAN,
     estructura_falla : BOOLEAN, filas_clave : 0..MaxCandidatos]

DocNulo == [tipo |-> "DOCX", hojas |-> 1, abre |-> FALSE,
            estructura_falla |-> FALSE, filas_clave |-> 0]

SalidaNula == [extraccion_exitosa |-> FALSE, total_propuestas |-> 0,
               metodo_extraccion_usado |-> "ninguno"]

(* the `if` that guards the fallback: process_docx line 513,
   process_xlsx line 558 *)
UsaFallback(tipo, props, p) ==
    IF tipo = "DOCX" THEN Len(props) = 0
    ELSE Len(props) = 0 /\ p.use_openai_fallback

(* estadisticas['metodo_extraccion_usado'] *)
MetodoUsado(props) ==
    IF \E i \in 1..Len(props) : props[i].metodo_extraccion = "estructurado"
        THEN "estructurado"
    ELSE IF Len(props) > 0 THEN "openai_fallback"
    ELSE "sin_propuestas"

DocIdle ==
    /\ api_key = FALSE
    /\ openai_ok = FALSE
    /\ proc = [t \in Tipos |-> ProcesadorNuevo]
    /\ doc = DocNulo
    /\ dpc = "idle"
    /\ dprops = <<>>
    /\ hoja = 0
    /\ llamadas = <<>>
    /\ salida = SalidaNula

DocInit ==
    /\ api_key \in BOOLEAN
    /\ openai_ok \in BOOLEAN
    /\ proc = [t \in Tipos |-> ProcesadorNuevo]
    /\ doc = DocNulo
    /\ dpc = "idle"
    /\ dprops = <<>>
    /\ hoja = 0
    /\ llamadas = <<>>
    /\ salida = SalidaNula

(* process_docx / process_xlsx up to the structural extraction: opening
   the file or rendering it may raise, which the outer except turns into
   extraccion_exitosa = False *)
AbrirDocumento ==
    /\ dpc = "idle"
    /\ \E d \in Documentos :
         /\ d.tipo = "DOCX" => d.hojas = 1
         /\ doc' = d
         /\ dpc' = IF d.abre THEN "estructurada" ELSE "fin"
    /\ dprops' = <<>>
    /\ hoja' = 0
    /\ llamadas' = <<>>
    /\ salida' = SalidaNula
    /\ UNCHANGED <<api_key, openai_ok, proc, storeVars, hashVars, otrasVars>>

(* the structural extraction inside its own try (an exception leaves the
   list empty), then the `if` of the fallback *)
ExtraerEstructurada ==
    /\ dpc = "estructurada"
    /\ LET props == IF doc.estructura_falla THEN <<>> ELSE Estructuradas(doc.filas_clave)
           usa == UsaFallback(doc.tipo, props, proc[doc.tipo])
       IN /\ dprops' = props
          /\ dpc' = IF usa THEN "fallback" ELSE "stats"
          /\ hoja' = IF usa THEN 1 ELSE 0
    /\ UNCHANGED <<api_key, openai_ok, proc, doc, llamadas, salida, storeVars, hashVars, otrasVars>>

(* one call of extraer_con_openai: for the document (DOCX), for the sheet
   the loop is at (XLSX) *)
ExtraerConOpenAI ==
    /\ dpc = "fallback"
    /\ LET p == ProcesadorListo(proc[doc.tipo], api_key, openai_ok)
       IN /\ proc' = [proc EXCEPT ![doc.tipo] = p]
          /\ \E respuesta \in RespuestasFallback :
               LET devuelve == IF ~p.openai_client THEN <<>>
                               ELSE FormatearRespuesta(respuesta)
               IN /\ llamadas' = Append(llamadas,
                                        [cliente |-> p.openai_client,
                                         respuesta |-> IF p.openai_client THEN respuesta
                                                       ELSE RespuestaFallback("sin_llamada", <<>>),
                                         devuelve |-> devuelve])
                  /\ dprops' = IF doc.tipo = "DOCX" THEN devuelve ELSE dprops \o devuelve
    /\ dpc' = IF hoja < doc.hojas THEN "fallback" ELSE "stats"
    /\ hoja' = IF hoja < doc.hojas THEN hoja + 1 ELSE hoja
    /\ UNCHANGED <<api_key, openai_ok, doc, salida, storeVars, hashVars, otrasVars>>

(* extraer_con_openai called on the module's processor outside
   process_docx / process_xlsx; what it returns is dropped, the client it
   initialised stays *)
ExtraerConOpenAIDirecto ==
    /\ dpc = "idle"
    /\ \E t \in Tipos :
         proc' = [proc EXCEPT ![t] = ProcesadorListo(proc[t], api_key, openai_ok)]
    /\ UNCHANGED <<api_key, openai_ok, doc, dpc, dprops, hoja, llamadas, salida,
                   storeVars, hashVars, otrasVars>>

(* the statistics and the returned dict *)
Estadisticas ==
    /\ dpc = "stats"
    /\ salida' = [extraccion_exitosa |-> TRUE, total_propuestas |-> Len(dprops),
                  metodo_extraccion_usado |-> MetodoUsado(dprops)]
    /\ dpc' = "fin"
    /\ UNCHANGED <<api_key, openai_ok, proc, doc, dprops, hoja, llamadas,
                   storeVars, hashVars, otrasVars>>

(* the next file *)
SiguienteDocumento ==
    /\ dpc = "fin"
    /\ dpc' = "idle"
    /\ doc' = DocNulo
    /\ dprops' = <<>>
    /\ hoja' = 0
    /\ llamadas' = <<>>
    /\ salida' = SalidaNula
    /\ UNCHANGED <<api_key, openai_ok, proc, storeVars, hashVars, otrasVars>>

DocNext ==
    \/ AbrirDocumento
    \/ ExtraerEstructurada
    \/ ExtraerConOpenAI
    \/ ExtraerConOpenAIDirecto
    \/ Estadisticas
    \/ SiguienteDocumento

(* ------------------------------------------------------------------ *)
(* extraer_propuestas_estructuradas of both processors, row by row      *)
(* ------------------------------------------------------------------ *)
MaxFilasDoc == 2        \* rows read from one document
MaxCeldas == 4          \* cells of a table row

(* a text is the sequence of its words *)
TextoVacio == <<>>
SinObservacion == <<"Sin observación">>

(* str.upper() of a word, and with the accents removed (NFD, no Mn) for
   normalizar_texto *)
Upper(palabra) ==
    CASE palabra \in {"Observación", "observación"} -> "OBSERVACIÓN"
      [] palabra = "Propuesta" -> "PROPUESTA"
      [] palabra = "de" -> "DE"
      [] palabra \in {"Solventación", "solventación"} -> "SOLVENTACIÓN"
      [] palabra = "Solventacion" -> "SOLVENTACION"
      [] OTHER -> palabra

SinAcentos(palabra) ==
    CASE palabra = "OBSERVACIÓN" -> "OBSERVACION"
      [] palabra = "SOLVENTACIÓN" -> "SOLVENTACION"
      [] OTHER -> palabra

normalizar_texto(texto) == [i \in 1..Len(texto) |-> SinAcentos(Upper(texto[i]))]

(* `palabra in texto` for a keyword of one word *)
Contiene(texto, palabra) == \E i \in 1..Len(texto) : texto[i] = palabra

(* `frase in texto` for the three-word phrase of the XLSX processor *)
ContieneFrase(texto, frase) ==
    \E i \in 1..Len(texto) :
        /\ i + Len(frase) - 1 <= Len(texto)
        /\ \A j \in 1..Len(frase) : texto[i + j - 1] = frase[j]

(* a cell of a DOCX table: the words of its paragraphs, and whether it
   holds a nested table ("vacia": one whose cells have no text) *)
Celda(texto, anidada) == [texto |-> texto, anidada |-> anidada]

TextosCelda ==
    {TextoVacio,
     <<"Observación">>,
     <<"Propuesta", "de", "Solventación">>,
     <<"Se", "corrigió">>,
     <<"Presentar", "evidencia">>,
     <<"Atendió", "la", "observación">>}

CeldasDocx ==
    {Celda(t, "no") : t \in TextosCelda} \cup {Celda(TextoVacio, "vacia")}

(* cells that label what follows them, and cells that are content *)
CeldasRotulo ==
    {Celda(<<"Observación">>, "no"), Celda(<<"Propuesta", "de", "Solventación">>, "no"),
     Celda(<<"Se", "corrigió">>, "no")}
CeldasContenido ==
    CeldasDocx \ {Celda(<<"Observación">>, "no")}

(* rows of label and content cells in turn *)
FilasDocx ==
    {f \in UNION {[1..n -> CeldasDocx] : n \in {2, MaxCeldas}} :
        \A i \in 1..Len(f) : IF i % 2 = 1 THEN f[i] \in CeldasRotulo
                              ELSE f[i] \in CeldasContenido}

(* styled markup by what decides its emptiness: the words of the
   paragraphs that have any, and the nested tables rendered *)
Html(parrafos, tablas) == [parrafos |-> parrafos, tablas |-> tablas]
HtmlVacio == Html(TextoVacio, 0)

(* the text the nested tables of a cell add to propuesta_texto *)
TextoAnidada(celda) == TextoVacio

TablasDe(celda) == IF celda.anidada = "no" THEN 0 ELSE 1

(* what the loop over the cells of a row has found *)
SinHallazgo ==
    [observacion |-> TextoVacio, observacion_html |-> HtmlVacio,
     propuesta_html |-> HtmlVacio, propuesta_texto |-> TextoVacio]

(* lines 258-292: one pass over the cells; a later keyword cell overwrites
   what an earlier one gave *)
RECURSIVE RecorrerCeldas(_, _, _)
RecorrerCeldas(fila, idx, acc) ==
    IF idx > Len(fila) THEN acc
    ELSE LET cell_text_norm == normalizar_texto(fila[idx].texto)
             hay_siguiente == idx + 1 <= Len(fila)
             con_obs ==
                IF Contiene(cell_text_norm, "OBSERVACION") /\ hay_siguiente
                    THEN [acc EXCEPT !.observacion = fila[idx + 1].texto,
                                     !.observacion_html = Html(fila[idx + 1].texto, 0)]
                ELSE acc
             con_prop ==
                IF Contiene(cell_text_norm, "PROPUESTA")
                        /\ Contiene(cell_text_norm, "SOLVENTACION")
                    THEN IF hay_siguiente
                            THEN [con_obs EXCEPT
                                    !.propuesta_html = Html(fila[idx + 1].texto,
                                                            TablasDe(fila[idx + 1])),
                                    !.propuesta_texto = fila[idx + 1].texto
                                                        \o TextoAnidada(fila[idx + 1])]
                         ELSE [con_obs EXCEPT !.propuesta_html = HtmlVacio,
                                              !.propuesta_texto = TextoVacio]
                ELSE con_obs
         IN RecorrerCeldas(fila, idx + 1, con_prop)

(* a candidate of the structural path *)
Propuesta(numero, observacion_texto, propuesta_texto, metodo) ==
    [numero |-> numero, observacion_texto |-> observacion_texto,
     propuesta_texto |-> propuesta_texto, metodo_extraccion |-> metodo]

(* lines 294-304: the row's candidate, if its markup is not blank *)
CandidatosDocx(fila, numero) ==
    LET h == RecorrerCeldas(fila, 1, SinHallazgo)
    IN IF h.propuesta_html # HtmlVacio
           THEN <<Propuesta(numero,
                            IF h.observacion # TextoVacio THEN h.observacion
                            ELSE SinObservacion,
                            h.propuesta_texto, "estructurado")>>
       ELSE <<>>

(* a cell of a data row as pandas gives it: NaN for an empty cell, a
   number, or a string *)
Nan == [t |-> "nan", texto |-> TextoVacio]
Numero == [t |-> "num", texto |-> <<"7">>]
Str(texto) == [t |-> "str", texto |-> texto]

CeldasXlsx ==
    {Nan, Numero,
     Str(<<"Observación">>),
     Str(<<"Propuesta", "de", "Solventación">>),
     Str(<<"Propuesta", "de", "Solventacion">>),
     Str(<<"Presentar", "evidencia">>)}

FilasXlsx == [1..3 -> CeldasXlsx]

(* XLSXProcessorOptimized._limpiar_texto: str() of what is no string, then
   the whitespace collapsed *)
limpiar_texto(valor) ==
    IF valor.t = "nan" THEN <<"nan">> ELSE valor.texto

UpperTexto(texto) == [i \in 1..Len(texto) |-> Upper(texto[i])]

FrasePropuesta == <<"PROPUESTA", "DE", "SOLVENTACIÓN">>

EsClavePropuesta(valor) ==
    valor.t = "str" /\ ContieneFrase(UpperTexto(valor.texto), FrasePropuesta)

EsClaveObservacion(valor) ==
    valor.t = "str" /\ Contiene(UpperTexto(valor.texto), "OBSERVACIÓN")

(* lines 317-334: the first keyword cell among the three before idx *)
ObservacionXlsx(fila, idx) ==
    LET desde == IF idx - 3 > 1 THEN idx - 3 ELSE 1
        claves == {k \in desde..idx : EsClaveObservacion(fila[k])}
    IN IF claves = {} THEN TextoVacio
       ELSE LET k == CHOOSE x \in claves : \A y \in claves : x <= y
            IN IF k + 1 <= Len(fila) THEN limpiar_texto(fila[k + 1]) ELSE TextoVacio

(* lines 300-383: the first keyword cell of the row that is not its last
   cell decides; the candidate is the cleaned cell after it *)
CandidatosXlsx(fila, numero) ==
    LET claves == {k \in 1..(Len(fila) - 1) : EsClavePropuesta(fila[k])}
    IN IF claves = {} THEN <<>>
       ELSE LET idx == CHOOSE x \in claves : \A y \in claves : x <= y
                propuesta == limpiar_texto(fila[idx + 1])
                observacion == ObservacionXlsx(fila, idx)
            IN IF propuesta # TextoVacio
                   THEN <<Propuesta(numero,
                                    IF observacion # TextoVacio THEN observacion
                                    ELSE SinObservacion,
                                    propuesta, "estructurado")>>
               ELSE <<>>

FilaNinguna == <<>>

(* first rows of a sheet: the labels of the columns, a row of the table
   whose proposal stands beside its label, a row of numbers *)
CabecerasXlsx ==
    {<<Numero, Str(<<"Observación">>), Str(<<"Propuesta", "de", "Solventación">>)>>,
     <<Numero, Str(<<"Propuesta", "de", "Solventación">>), Str(<<"Presentar", "evidencia">>)>>,
     <<Numero, Numero, Numero>>}

EstrIdle ==
    /\ e_tipo = "DOCX"
    /\ e_pc = "idle"
    /\ e_fila = FilaNinguna
    /\ e_props = <<>>
    /\ e_numero = 0
    /\ e_bloque = 0
    /\ e_filas = 0
    /\ e_cabecera = FilaNinguna

(* lines 247-248 (XLSX 292-293): the list and the counter *)
EstrInit ==
    /\ e_tipo \in Tipos
    /\ e_pc = "bloque"
    /\ e_fila = FilaNinguna
    /\ e_props = <<>>
    /\ e_numero = 1
    /\ e_bloque = 0
    /\ e_filas = 0
    /\ e_cabecera = FilaNinguna

(* `for tabla in doc.tables` / `for sheet_name in excel_data.sheet_names`:
   the next table or sheet; `df = excel_data.parse(sheet_name)` (line 296)
   takes the first row of the sheet as the column names of df, so that
   df.iterrows() starts at the second row ("fila": i + 2, line 359) *)
SiguienteBloque ==
    /\ e_pc \in {"bloque", "fila"}
    /\ e_bloque < MaxHojas
    /\ e_bloque' = e_bloque + 1
    /\ e_pc' = "fila"
    /\ IF e_tipo = "XLSX" THEN e_cabecera' \in CabecerasXlsx
       ELSE e_cabecera' = FilaNinguna
    /\ UNCHANGED <<e_tipo, e_fila, e_props, e_numero, e_filas, sinEstr>>

(* one row of the table or sheet the loop is in *)
ProcesarFila ==
    /\ e_pc = "fila"
    /\ e_filas < MaxFilasDoc
    /\ \E fila \in (IF e_tipo = "DOCX" THEN FilasDocx ELSE FilasXlsx) :
         LET nuevas == IF e_tipo = "DOCX" THEN CandidatosDocx(fila, e_numero)
                       ELSE CandidatosXlsx(fila, e_numero)
         IN /\ e_fila' = fila
            /\ e_props' = e_props \o nuevas
            /\ e_numero' = e_numero + Len(nuevas)
    /\ e_filas' = e_filas + 1
    /\ UNCHANGED <<e_tipo, e_pc, e_bloque, e_cabecera, sinEstr>>

(* `return propuestas` *)
DevolverEstructuradas ==
    /\ e_pc \in {"bloque", "fila"}
    /\ e_pc' = "fin"
    /\ UNCHANGED <<e_tipo, e_fila, e_props, e_numero, e_bloque, e_filas, e_cabecera, sinEstr>>

EstrNext ==
    \/ SiguienteBloque
    \/ ProcesarFila
    \/ DevolverEstructuradas

(* ------------------------------------------------------------------ *)
(* MetadataAnalyzer: metadata from the file name                        *)
(* ------------------------------------------------------------------ *)
(* a string is the sequence of its characters *)
NombreEjemplo ==
    <<"1", "2", ".", "F", "I", "D", "E", "C", "I", "X", "_", "R", "R", "y", "P", "E", "_",
     "E", "N", "E", "_", "J", "U", "N", "_", "S", "A", ".", "d", "o", "c", "x">>
NombreSepuede ==
    <<"S", "E", "P", "U", "E", "D", "E", "_", "i", "n", "f", "o", "r", "m", "e", ".", "x",
     "l", "s", "x">>
NombreReaRrype ==
    <<"1", "2", ".", "F", "I", "D", "E", "C", "I", "X", "_", "R", "E", "A", "_", "R", "R",
     "y", "P", "E", "_", "E", "N", "E", "_", "J", "U", "N", "_", "S", "A", ".", "d", "o",
     "c", "x">>
NombreInforme ==
    <<"i", "n", "f", "o", "r", "m", "e", "_", "E", "N", "E", "_", "E", "N", "E", ".", "x",
     "l", "s", "x">>
NombrePatron ==
    <<"3", ".", "A", "B", "C", "_", "2", "0", "2", "4", "_", "R", ".", "d", "o", "c",
     "x">>
NombreNotas ==
    <<"n", "o", "t", "a", "s", ".", "d", "o", "c", "x">>
NombreItea ==
    <<"I", "T", "E", "A", "_", "P", "R", "A", "S", ".", "x", "l", "s", "x">>
NombreMinusculas ==
    <<"1", "2", ".", "f", "i", "d", "e", "c", "i", "x", "_", "r", "r", "y", "p", "e", "_",
     "e", "n", "e", "_", "j", "u", "n", "_", "s", "a", ".", "d", "o", "c", "x">>

Nombres == {NombreEjemplo, NombreSepuede, NombreReaRrype, NombreInforme,
            NombrePatron, NombreNotas, NombreItea, NombreMinusculas}

Minusculas ==
    {"a", "b", "c", "d", "e", "f", "i", "j", "k", "l", "m", "n", "o", "p", "r",
     "s", "t", "u", "x", "y"}
Mayusculas ==
    {"A", "B", "C", "D", "E", "F", "I", "J", "K", "L", "M", "N", "O", "P", "R",
     "S", "T", "U", "X", "Y"}
Digitos == {"0", "1", "2", "3", "4"}

(* str.upper() of a character *)
UpperChar(c) ==
    CASE c = "a" -> "A" [] c = "b" -> "B" [] c = "c" -> "C" [] c = "d" -> "D"
      [] c = "e" -> "E" [] c = "f" -> "F" [] c = "i" -> "I" [] c = "j" -> "J"
      [] c = "k" -> "K" [] c = "l" -> "L" [] c = "m" -> "M" [] c = "n" -> "N"
      [] c = "o" -> "O" [] c = "p" -> "P" [] c = "r" -> "R" [] c = "s" -> "S"
      [] c = "t" -> "T" [] c = "u" -> "U" [] c = "x" -> "X" [] c = "y" -> "Y"
      [] OTHER -> c

StrUpper(cadena) == [i \in 1..Len(cadena) |-> UpperChar(cadena[i])]

(* sub occurs in cadena at position i *)
EstaEn(sub, cadena, i) ==
    /\ i + Len(sub) - 1 <= Len(cadena)
    /\ \A j \in 1..Len(sub) : cadena[i + j - 1] = sub[j]

(* `sub in cadena` *)
In(sub, cadena) == \E i \in 1..Len(cadena) : EstaEn(sub, cadena, i)

(* cadena.endswith(sub) *)
EndsWith(sub, cadena) ==
    Len(sub) <= Len(cadena) /\ EstaEn(sub, cadena, Len(cadena) - Len(sub) + 1)

Trozo(cadena, desde, hasta) == [i \in 1..(hasta - desde + 1) |-> cadena[desde + i - 1]]

(* the end of the run of characters of `clase` that starts at i (i - 1 when
   cadena[i] is not of the class) *)
RECURSIVE FinDeRacha(_, _, _)
FinDeRacha(cadena, i, clase) ==
    IF i <= Len(cadena) /\ cadena[i] \in clase
        THEN FinDeRacha(cadena, i + 1, clase)
    ELSE i - 1

ENTES_CONOCIDOS ==
    <<<<"F", "I", "D", "E", "C", "I", "X">>,
      <<"S", "E", "P", "U", "E", "D", "E">>,
      <<"F", "I", "D", "E", "G", "A", "R">>,
      <<"F", "I", "D", "E", "A", "P", "E", "C", "H">>,
      <<"F", "I", "D", "E">>,
      <<"C", "O", "E", "P", "R", "I", "S", "T">>,
      <<"D", "I", "F">>,
      <<"S", "E", "P", "E">>,
      <<"C", "E", "A">>,
      <<"I", "T", "E">>>>

(* the keys of FUENTES_FINANCIAMIENTO in the order of the dict *)
FUENTES_FINANCIAMIENTO ==
    <<<<"S", "A">>, <<"P", "E", "F", "C", "F">>, <<"R">>,
      <<"P", "R", "A", "S">>, <<"P", "D", "P">>,
      <<"R", "E", "A">>, <<"R", "R", "y", "P", "E">>>>

Desconocido == <<"D", "E", "S", "C", "O", "N", "O", "C", "I", "D", "O">>
NoEspecificada == <<"N", "O", "_", "E", "S", "P", "E", "C", "I", "F", "I", "C", "A", "D", "A">>
General == <<"G", "E", "N", "E", "R", "A", "L">>
ReaRrype == <<"R", "E", "A", "_", "R", "R", "y", "P", "E">>
NoneStr == <<"None">>

(* re.search(r'\d+\.([A-Z]+)_', cadena): the leftmost match's group, or
   NoneStr; a match starts at a digit, runs to a '.', then letters, then
   '_' *)
BuscarNumeroEnte(cadena) ==
    LET inicios ==
            {i \in 1..Len(cadena) :
                /\ cadena[i] \in Digitos
                /\ LET j == FinDeRacha(cadena, i, Digitos) + 1
                   IN /\ j <= Len(cadena) /\ cadena[j] = "."
                      /\ LET q == FinDeRacha(cadena, j + 1, Mayusculas)
                         IN /\ q >= j + 1
                            /\ q + 1 <= Len(cadena) /\ cadena[q + 1] = "_"}
    IN IF inicios = {} THEN NoneStr
       ELSE LET i == CHOOSE x \in inicios : \A y \in inicios : x <= y
                j == FinDeRacha(cadena, i, Digitos) + 1
            IN Trozo(cadena, j + 1, FinDeRacha(cadena, j + 1, Mayusculas))

(* re.search(r'^([A-Z]+)_', cadena) *)
BuscarEnteInicial(cadena) ==
    LET q == FinDeRacha(cadena, 1, Mayusculas)
    IN IF q >= 1 /\ q + 1 <= Len(cadena) /\ cadena[q + 1] = "_"
           THEN Trozo(cadena, 1, q)
       ELSE NoneStr

(* MetadataAnalyzer.extraer_ente_de_nombre_archivo *)
extraer_ente_de_nombre_archivo(nombre_archivo) ==
    LET nombre == StrUpper(nombre_archivo)
        conocidos == {k \in 1..Len(ENTES_CONOCIDOS) : In(ENTES_CONOCIDOS[k], nombre)}
    IN IF conocidos # {}
           THEN ENTES_CONOCIDOS[CHOOSE k \in conocidos : \A y \in conocidos : k <= y]
       ELSE IF BuscarNumeroEnte(nombre) # NoneStr THEN BuscarNumeroEnte(nombre)
       ELSE IF BuscarEnteInicial(nombre) # NoneStr THEN BuscarEnteInicial(nombre)
       ELSE Desconocido

(* the test of line 94 for one code *)
CodigoEnNombre(codigo, nombre_base) ==
    \/ In(<<"_">> \o codigo \o <<".">>, nombre_base)
    \/ In(<<"_">> \o codigo \o <<"_">>, nombre_base)
    \/ EndsWith(<<"_">> \o codigo, nombre_base)

RECURSIVE FuentesDesde(_, _)
FuentesDesde(k, nombre_base) ==
    IF k > Len(FUENTES_FINANCIAMIENTO) THEN <<>>
    ELSE (IF CodigoEnNombre(FUENTES_FINANCIAMIENTO[k], nombre_base)
              THEN <<FUENTES_FINANCIAMIENTO[k]>> ELSE <<>>)
         \o FuentesDesde(k + 1, nombre_base)

(* MetadataAnalyzer.extraer_fuente_financiamiento, no sheet names given *)
extraer_fuente_financiamiento(nombre_archivo) ==
    LET fuentes_encontradas == FuentesDesde(1, StrUpper(nombre_archivo))
    IN IF fuentes_encontradas # <<>> THEN fuentes_encontradas ELSE <<NoEspecificada>>

meses ==
    <<<<"E", "N", "E">>, <<"F", "E", "B">>, <<"M", "A", "R">>, <<"A", "B", "R">>,
      <<"M", "A", "Y">>, <<"J", "U", "N">>, <<"J", "U", "L">>, <<"A", "G", "O">>,
      <<"S", "E", "P">>, <<"O", "C", "T">>, <<"N", "O", "V">>, <<"D", "I", "C">>>>

(* re.search(r'20\d{2}', cadena) *)
BuscarAnio(cadena) ==
    LET inicios == {i \in 1..Len(cadena) :
                      /\ i + 3 <= Len(cadena)
                      /\ cadena[i] = "2" /\ cadena[i + 1] = "0"
                      /\ cadena[i + 2] \in Digitos /\ cadena[i + 3] \in Digitos}
    IN IF inicios = {} THEN NoneStr
       ELSE LET i == CHOOSE x \in inicios : \A y \in inicios : x <= y
            IN Trozo(cadena, i, i + 3)

(* MetadataAnalyzer.extraer_periodo: the first MES_MES pattern in the
   order of the two loops, else a year, else None *)
extraer_periodo(nombre_archivo) ==
    LET nombre_base == StrUpper(nombre_archivo)
        n == Len(meses)
        patron(k) == meses[((k - 1) \div n) + 1] \o <<"_">> \o meses[((k - 1) % n) + 1]
        hallados == {k \in 1..(n * n) : In(patron(k), nombre_base)}
    IN IF hallados # {}
           THEN patron(CHOOSE k \in hallados : \A y \in hallados : k <= y)
       ELSE BuscarAnio(nombre_base)

tipos_conocidos ==
    <<<<"R", "R", "y", "P", "E">>, <<"R", "E", "A">>,
      <<"I", "N", "F", "O", "R", "M", "E">>, <<"R", "E", "P", "O", "R", "T", "E">>,
      <<"P", "R", "O", "P", "U", "E", "S", "T", "A">>>>

(* MetadataAnalyzer.extraer_tipo_documento *)
extraer_tipo_documento(nombre_archivo) ==
    LET nombre_base == StrUpper(nombre_archivo)
        hallados == {k \in 1..Len(tipos_conocidos) : In(tipos_conocidos[k], nombre_base)}
    IN IF hallados = {} THEN General
       ELSE IF In(tipos_conocidos[2], nombre_base) /\ In(tipos_conocidos[1], nombre_base)
           THEN ReaRrype
       ELSE tipos_conocidos[CHOOSE k \in hallados : \A y \in hallados : k <= y]

SinCalcular == <<"?">>

MetaIdle ==
    /\ m_nombre = <<>>
    /\ m_ente = SinCalcular
    /\ m_fuentes = <<SinCalcular>>
    /\ m_periodo = SinCalcular
    /\ m_tipo = SinCalcular

(* analizar_archivo(nombre_archivo) is called *)
MetaInit ==
    /\ m_nombre \in Nombres
    /\ m_ente = SinCalcular
    /\ m_fuentes = <<SinCalcular>>
    /\ m_periodo = SinCalcular
    /\ m_tipo = SinCalcular

(* analizar_archivo lines 186-189, one call each *)
ExtraerEnte ==
    /\ m_ente = SinCalcular
    /\ m_ente' = extraer_ente_de_nombre_archivo(m_nombre)
    /\ UNCHANGED <<m_nombre, m_fuentes, m_periodo, m_tipo, sinMeta>>

ExtraerFuentes ==
    /\ m_fuentes = <<SinCalcular>>
    /\ m_fuentes' = extraer_fuente_financiamiento(m_nombre)
    /\ UNCHANGED <<m_nombre, m_ente, m_periodo, m_tipo, sinMeta>>

ExtraerPeriodo ==
    /\ m_periodo = SinCalcular
    /\ m_periodo' = extraer_periodo(m_nombre)
    /\ UNCHANGED <<m_nombre, m_ente, m_fuentes, m_tipo, sinMeta>>

ExtraerTipoDocumento ==
    /\ m_tipo = SinCalcular
    /\ m_tipo' = extraer_tipo_documento(m_nombre)
    /\ UNCHANGED <<m_nombre, m_ente, m_fuentes, m_periodo, sinMeta>>

MetaNext ==
    \/ ExtraerEnte
    \/ ExtraerFuentes
    \/ ExtraerPeriodo
    \/ ExtraerTipoDocumento

(* ------------------------------------------------------------------ *)
(* ImageValidator                                                       *)
(* ------------------------------------------------------------------ *)
MaxImagenes == 2        \* images of a DOCX document
MaxPropuestas == 2      \* proposals of a validated file
MaxReportes == 1        \* reports kept before limpiar_reportes
VentanaFilas == 10      \* rows around a proposal that count as near
SinFila == 0            \* a proposal without 'fila' (None)

(* a proposal as the validator reads it: numero, hoja and fila (XLSX) *)
PropuestaValidada(numero, nombre_hoja, fila) ==
    [numero |-> numero, hoja |-> nombre_hoja, fila |-> fila]

(* contenido_extraido: tipo_archivo, the images of the document (DOCX:
   metadatos.imagenes.detalles, as their indices), the images of each sheet
   (XLSX: hojas_completas[].imagenes, as their anchor rows), the
   proposals *)
Contenido(tipo_archivo, imagenes, hojas, lista) ==
    [tipo_archivo |-> tipo_archivo, imagenes |-> imagenes, hojas |-> hojas,
     propuestas |-> lista]

ContenidoNulo == Contenido("", <<>>, <<>>, <<>>)

ContenidosDocx ==
    {Contenido(t, [i \in 1..n |-> i], <<>>, [i \in 1..m |-> PropuestaValidada(i, 0, SinFila)]) :
        t \in {"DOCX", "docx"}, n \in 0..MaxImagenes, m \in 0..MaxPropuestas}

ImagenesHoja == {<<>>, <<1>>, <<20>>}

ContenidosXlsx ==
    {Contenido("XLSX", <<>>, h, [i \in 1..Len(ho) |-> PropuestaValidada(i, ho[i], f)]) :
        h \in [1..MaxHojas -> ImagenesHoja],
        ho \in UNION {[1..m -> 1..MaxHojas] : m \in 0..MaxPropuestas},
        f \in {SinFila, 5}}

ContenidosOtros == {Contenido("PDF", <<>>, <<>>, <<>>)}

Contenidos == ContenidosDocx \cup ContenidosXlsx \cup ContenidosOtros

(* a report; the report of an unsupported kind has only estado and error,
   its other keys are read with their defaults *)
Reporte(tipo_archivo, estado, tiene, total, detectadas, con_imagenes) ==
    [tipo_archivo |-> tipo_archivo, estado |-> estado,
     tiene_imagenes_en_propuestas |-> tiene, total_imagenes_documento |-> total,
     imagenes_detectadas |-> detectadas, propuestas_con_imagenes |-> con_imagenes]

SinReporte == Reporte("", "", FALSE, 0, <<>>, <<>>)

(* an entry of propuestas_con_imagenes *)
Anotada(propuesta, imagenes_cercanas) ==
    [numero |-> propuesta.numero, hoja |-> propuesta.hoja, fila |-> propuesta.fila,
     imagenes_cercanas |-> imagenes_cercanas]

(* the loop of lines 74-79, all but the last proposal *)
AdvertirSinUltima(lista) ==
    [i \in 1..(Len(lista) - 1) |-> Anotada(lista[i], 0)]

(* the loop of lines 74-79: every proposal of the document *)
AdvertirTodas(lista) ==
    [i \in 1..Len(lista) |-> Anotada(lista[i], 0)]

(* ImageValidator.validar_propuestas_docx *)
validar_propuestas_docx(contenido_extraido) ==
    LET total_imagenes == Len(contenido_extraido.imagenes)
        lista == contenido_extraido.propuestas
    IN IF total_imagenes > 0 /\ Len(lista) > 0
           THEN Reporte("DOCX", "ADVERTENCIA", TRUE, total_imagenes,
                        contenido_extraido.imagenes, AdvertirTodas(lista))
       ELSE Reporte("DOCX", "VÁLIDO", FALSE, total_imagenes, <<>>, <<>>)

Abs(x) == IF x < 0 THEN 0 - x ELSE x

RECURSIVE SumaHojas(_, _)
SumaHojas(hojas, k) ==
    IF k > Len(hojas) THEN 0 ELSE Len(hojas[k]) + SumaHojas(hojas, k + 1)

RECURSIVE ImagenesDeHojas(_, _)
ImagenesDeHojas(hojas, k) ==
    IF k > Len(hojas) THEN <<>> ELSE hojas[k] \o ImagenesDeHojas(hojas, k + 1)

(* the loop of lines 136-166 when only a nearby image flags a proposal *)
RECURSIVE AnotarSoloCercanas(_, _, _)
AnotarSoloCercanas(lista, hojas, k) ==
    IF k > Len(lista) THEN <<>>
    ELSE LET propuesta == lista[k]
             imagenes_hoja == hojas[propuesta.hoja]
             imagenes_cercanas ==
                 {i \in 1..Len(imagenes_hoja) :
                     /\ propuesta.fila # SinFila
                     /\ Abs(imagenes_hoja[i] - propuesta.fila) <= VentanaFilas}
         IN (IF imagenes_cercanas # {}
                 THEN <<Anotada(propuesta, Cardinality(imagenes_cercanas))>>
             ELSE <<>>)
            \o AnotarSoloCercanas(lista, hojas, k + 1)

(* the loop of lines 136-166 from proposal k on *)
RECURSIVE AnotarXlsx(_, _, _)
AnotarXlsx(lista, hojas, k) ==
    IF k > Len(lista) THEN <<>>
    ELSE LET propuesta == lista[k]
             imagenes_hoja == hojas[propuesta.hoja]
             imagenes_cercanas ==
                 {i \in 1..Len(imagenes_hoja) :
                     /\ propuesta.fila # SinFila
                     /\ Abs(imagenes_hoja[i] - propuesta.fila) <= VentanaFilas}
         IN (IF Len(imagenes_hoja) > 0
                 THEN <<Anotada(propuesta, Cardinality(imagenes_cercanas))>>
             ELSE <<>>)
            \o AnotarXlsx(lista, hojas, k + 1)

(* ImageValidator.validar_propuestas_xlsx *)
validar_propuestas_xlsx(contenido_extraido) ==
    LET total_imagenes == SumaHojas(contenido_extraido.hojas, 1)
        anotadas == AnotarXlsx(contenido_extraido.propuestas, contenido_extraido.hojas, 1)
    IN IF total_imagenes > 0
           THEN Reporte("XLSX", IF anotadas # <<>> THEN "ADVERTENCIA" ELSE "VÁLIDO",
                        anotadas # <<>>, total_imagenes,
                        ImagenesDeHojas(contenido_extraido.hojas, 1), anotadas)
       ELSE Reporte("XLSX", "VÁLIDO", FALSE, total_imagenes, <<>>, <<>>)

(* str.upper() of tipo_archivo *)
UpperTipo(tipo_archivo) == IF tipo_archivo = "docx" THEN "DOCX" ELSE tipo_archivo

(* ImageValidator.validar_archivo: the report *)
validar_archivo(contenido_extraido) ==
    LET tipo_archivo == UpperTipo(contenido_extraido.tipo_archivo)
    IN IF tipo_archivo = "DOCX" THEN validar_propuestas_docx(contenido_extraido)
       ELSE IF tipo_archivo = "XLSX" THEN validar_propuestas_xlsx(contenido_extraido)
       ELSE Reporte(tipo_archivo, "ERROR", FALSE, 0, <<>>, <<>>)

ValIdle ==
    /\ v_pc = "idle"
    /\ v_contenido = ContenidoNulo
    /\ v_reporte = SinReporte
    /\ v_reportes = <<>>

(* the caller has the extracted content of a file *)
RecibirContenido ==
    /\ v_pc = "idle"
    /\ Len(v_reportes) < MaxReportes
    /\ v_contenido' \in Contenidos
    /\ v_pc' = "extraido"
    /\ UNCHANGED <<v_reporte, v_reportes, sinVal>>

(* validar_archivo(nombre_archivo, contenido_extraido) *)
ValidarArchivo ==
    /\ v_pc = "extraido"
    /\ v_reporte' = validar_archivo(v_contenido)
    /\ v_reportes' = Append(v_reportes, validar_archivo(v_contenido))
    /\ v_pc' = "validado"
    /\ UNCHANGED <<v_contenido, sinVal>>

(* the caller goes on to the next file *)
SiguienteValidacion ==
    /\ v_pc = "validado"
    /\ v_pc' = "idle"
    /\ v_contenido' = ContenidoNulo
    /\ v_reporte' = SinReporte
    /\ UNCHANGED <<v_reportes, sinVal>>

(* ImageValidator.limpiar_reportes *)
LimpiarReportes ==
    /\ v_pc = "idle"
    /\ v_reportes # <<>>
    /\ v_reportes' = <<>>
    /\ UNCHANGED <<v_pc, v_contenido, v_reporte, sinVal>>

ValNext ==
    \/ RecibirContenido
    \/ ValidarArchivo
    \/ SiguienteValidacion
    \/ LimpiarReportes

(* ------------------------------------------------------------------ *)
(* DatabaseConsolidator                                                 *)
(* ------------------------------------------------------------------ *)
MaxFuentes == 2         \* funding sources of a file
MaxRegistros == 5       \* records there may be when one more file is added

NombresArchivo == {"a.docx", "b.xlsx"}
TextosExcel == {"", "nan", "texto"}

(* the funding sources analizar_archivo gives: never an empty list *)
ListasFuentes == {[i \in 1..n |-> FUENTES_FINANCIAMIENTO[i]] : n \in 1..MaxFuentes}

PropuestaExtraida(numero, observacion_texto, propuesta_texto) ==
    [numero |-> numero, observacion_texto |-> observacion_texto,
     propuesta_texto |-> propuesta_texto]

ListasPropuestas ==
    {[i \in 1..n |-> PropuestaExtraida(i, o, "texto")] :
        n \in 0..MaxPropuestas, o \in TextosExcel}

(* a processed file: metadatos['nombre_archivo'], its funding sources and
   contenido['propuestas'] *)
ArchivoProcesado(nombre_archivo, lista_fuentes, lista) ==
    [nombre_archivo |-> nombre_archivo, fuentes |-> lista_fuentes, propuestas |-> lista]

ArchivoNulo == ArchivoProcesado("", <<>>, <<>>)

ArchivosProcesados ==
    {ArchivoProcesado(a, f, l) :
        a \in NombresArchivo, f \in ListasFuentes, l \in ListasPropuestas}

(* DatabaseConsolidator._limpiar_texto_para_excel *)
limpiar_texto_para_excel(texto) == IF texto = "" \/ texto = "nan" THEN "" ELSE texto

SinNumero == 0          \* 'Número Propuesta': 'N/A'

Registro(nombre_archivo, fuente, numero, observacion) ==
    [archivo_origen |-> nombre_archivo, fuente |-> fuente, numero |-> numero,
     observacion |-> observacion]

(* the loop of line 46 for one proposal, first funding source only *)
RegistrosPrimeraFuente(archivo, propuesta) ==
    <<Registro(archivo.nombre_archivo, archivo.fuentes[1], propuesta.numero,
               limpiar_texto_para_excel(propuesta.observacion_texto))>>

(* the loop of line 46 for one proposal: a record per funding source *)
RegistrosDePropuesta(archivo, propuesta) ==
    [j \in 1..Len(archivo.fuentes) |->
        Registro(archivo.nombre_archivo, archivo.fuentes[j], propuesta.numero,
                 limpiar_texto_para_excel(propuesta.observacion_texto))]

(* the loop of line 45 from proposal k on *)
RECURSIVE RegistrosDesde(_, _)
RegistrosDesde(archivo, k) ==
    IF k > Len(archivo.propuestas) THEN <<>>
    ELSE RegistrosDePropuesta(archivo, archivo.propuestas[k])
         \o RegistrosDesde(archivo, k + 1)

(* the loop of line 63 *)
RegistrosSinPropuestas(archivo) ==
    [j \in 1..Len(archivo.fuentes) |->
        Registro(archivo.nombre_archivo, archivo.fuentes[j], SinNumero,
                 "Sin propuestas detectadas")]

(* what agregar_datos_archivo appends *)
agregar_datos_archivo(archivo) ==
    IF archivo.propuestas # <<>> THEN RegistrosDesde(archivo, 1)
    ELSE RegistrosSinPropuestas(archivo)

ConsIdle ==
    /\ c_pc = "idle"
    /\ c_archivo = ArchivoNulo
    /\ c_datos = <<>>

(* the caller has the metadata and the content of a file *)
RecibirArchivo ==
    /\ c_pc = "idle"
    /\ Len(c_datos) < MaxRegistros
    /\ c_archivo' \in ArchivosProcesados
    /\ c_pc' = "extraido"
    /\ UNCHANGED <<c_datos, sinCons>>

(* agregar_datos_archivo(metadatos, contenido_extraido) *)
AgregarDatosArchivo ==
    /\ c_pc = "extraido"
    /\ c_datos' = c_datos \o agregar_datos_archivo(c_archivo)
    /\ c_pc' = "agregado"
    /\ UNCHANGED <<c_archivo, sinCons>>

(* the caller goes on to the next file *)
SiguienteAgregado ==
    /\ c_pc = "agregado"
    /\ c_pc' = "idle"
    /\ c_archivo' = ArchivoNulo
    /\ UNCHANGED <<c_datos, sinCons>>

(* DatabaseConsolidator.limpiar_datos *)
LimpiarDatos ==
    /\ c_pc = "idle"
    /\ c_datos # <<>>
    /\ c_datos' = <<>>
    /\ UNCHANGED <<c_pc, c_archivo, sinCons>>

ConsNext ==
    \/ RecibirArchivo
    \/ AgregarDatosArchivo
    \/ SiguienteAgregado
    \/ LimpiarDatos

(* ------------------------------------------------------------------ *)
(* BatchProcessor                                                       *)
(* ------------------------------------------------------------------ *)
MaxArchivos == 3        \* files in the input folder

(* what the processing of a file meets: nothing raises; the extraction,
   the metadata, the validation or the consolidation raises (steps 1-4);
   writing the file's result raises (step 6: mkdir, open or json.dump) *)
Suertes == {"sin_error", "falla_extraccion", "falla_guardar"}

Archivo(num_propuestas, suerte) == [num_propuestas |-> num_propuestas, suerte |-> suerte]

ArchivosEncontrados ==
    UNION {[1..n -> {Archivo(1, sr) : sr \in Suertes}] : n \in 0..MaxArchivos}

Stats(total_archivos, archivos_exitosos, archivos_con_error, total_propuestas) ==
    [total_archivos |-> total_archivos, archivos_exitosos |-> archivos_exitosos,
     archivos_con_error |-> archivos_con_error, total_propuestas |-> total_propuestas]

ResultadoArchivo(exito, error) == [exito |-> exito, error |-> error]

(* BatchProcessor.__init__ *)
BatchIdle ==
    /\ b_pc = "idle"
    /\ b_archivos = <<>>
    /\ b_idx = 0
    /\ b_stats = Stats(0, 0, 0, 0)
    /\ b_resultados = <<>>
    /\ b_datos = <<>>

(* procesar_todos up to the loop: buscar_archivos, total_archivos *)
ProcesarTodos ==
    /\ b_pc = "idle"
    /\ \E archivos \in ArchivosEncontrados :
         /\ b_archivos' = archivos
         /\ IF archivos = <<>>
                THEN b_pc' = "fin" /\ UNCHANGED <<b_idx, b_stats>>
            ELSE /\ b_pc' = "bucle"
                 /\ b_idx' = 1
                 /\ b_stats' = [b_stats EXCEPT !.total_archivos = Len(archivos)]
    /\ UNCHANGED <<b_resultados, b_datos, sinBatch>>

(* the statistics after steps 1-5 of procesar_archivo went through *)
StatsTrasExito(stats, archivo) ==
    [stats EXCEPT !.total_propuestas = @ + archivo.num_propuestas,
                  !.archivos_exitosos = @ + 1]

(* the statistics after the except clause *)
StatsTrasError(stats) == [stats EXCEPT !.archivos_con_error = @ + 1]

(* step 4, line 146: agregar_datos_archivo appends the records of the file,
   one per proposal (and funding source), or one placeholder *)
DatosTrasAgregar(datos, idx, archivo) ==
    datos \o [i \in 1..(IF archivo.num_propuestas = 0 THEN 1 ELSE archivo.num_propuestas)
                 |-> idx]

(* BatchProcessor.procesar_archivo: statistics, resultado, and whether step
   4 was reached *)
procesar_archivo(stats, archivo) ==
    IF archivo.suerte = "falla_extraccion"
        THEN [stats |-> StatsTrasError(stats), resultado |-> ResultadoArchivo(FALSE, TRUE),
              agregado |-> FALSE]
    ELSE IF archivo.suerte = "falla_guardar"
        THEN [stats |-> StatsTrasError(StatsTrasExito(stats, archivo)),
              resultado |-> ResultadoArchivo(FALSE, TRUE), agregado |-> TRUE]
    ELSE [stats |-> StatsTrasExito(stats, archivo),
          resultado |-> ResultadoArchivo(TRUE, FALSE), agregado |-> TRUE]

(* one turn of the loop of procesar_todos *)
ProcesarArchivo ==
    /\ b_pc = "bucle"
    /\ LET r == procesar_archivo(b_stats, b_archivos[b_idx])
       IN /\ b_stats' = r.stats
          /\ b_resultados' = Append(b_resultados, r.resultado)
          /\ b_datos' = IF r.agregado
                           THEN DatosTrasAgregar(b_datos, b_idx, b_archivos[b_idx])
                        ELSE b_datos
    /\ IF b_idx < Len(b_archivos)
           THEN b_idx' = b_idx + 1 /\ b_pc' = b_pc
       ELSE b_pc' = "reportes" /\ b_idx' = b_idx
    /\ UNCHANGED <<b_archivos, sinBatch>>

(* _generar_reportes_finales and _mostrar_resumen *)
GenerarReportesFinales ==
    /\ b_pc = "reportes"
    /\ b_pc' = "fin"
    /\ UNCHANGED <<b_archivos, b_idx, b_stats, b_resultados, b_datos, sinBatch>>

BatchNext ==
    \/ ProcesarTodos
    \/ ProcesarArchivo
    \/ GenerarReportesFinales

(* ------------------------------------------------------------------ *)
(* verificar_propuesta, steps 2 to 4, over the judgments of a scope     *)
(* ------------------------------------------------------------------ *)
MaxAlcance == 2         \* rows of the tuple's scope

Puntajes == {0, 69, 70, 94, 95, 100}

(* the judgments the prompt asks for: a score and the two flags *)
Juicios ==
    {Objeto(Num(p), Bool(d), Bool(v)) : p \in Puntajes, d \in BOOLEAN, v \in BOOLEAN}

(* the row of the scope with this id *)
FilaDeAlcance(id) == [id |-> id]

(* the orders obtener_propuestas_por_ente may give n rows in *)
Ordenes(n) == {o \in [1..n -> 1..n] : \A i, k \in 1..n : i # k => o[i] # o[k]}

JuezIdle ==
    /\ j_pc = "idle"
    /\ j_use_ai = FALSE
    /\ j_filas = <<>>
    /\ j_juicio = <<>>
    /\ j_acc = AccInicial
    /\ j_res = SinResultado

(* verificar_propuesta found no exact match and has the rows of the scope *)
JuezInit ==
    /\ j_pc = "semantic"
    /\ j_use_ai \in BOOLEAN
    /\ \E n \in 0..MaxAlcance :
          /\ j_filas \in Ordenes(n)
          /\ j_juicio \in [1..n -> Juicios]
    /\ j_acc = AccInicial
    /\ j_res = SinResultado

(* lines 171-187: the loop over the rows *)
CompararConIA ==
    /\ j_pc = "semantic"
    /\ j_acc' = BucleSimilitud(j_use_ai,
                               [i \in 1..Len(j_filas) |-> FilaDeAlcance(j_filas[i])],
                               j_juicio, AccInicial)
    /\ j_pc' = "decision"
    /\ UNCHANGED <<j_use_ai, j_filas, j_juicio, j_res, sinJuez>>

(* lines 189-224: the decision *)
TomarDecision ==
    /\ j_pc = "decision"
    /\ j_res' = Decidir(j_acc)
    /\ j_pc' = "done"
    /\ UNCHANGED <<j_use_ai, j_filas, j_juicio, j_acc, sinJuez>>

JuezNext ==
    \/ CompararConIA
    \/ TomarDecision

(* ------------------------------------------------------------------ *)
(* Specifications                                                       *)
(* ------------------------------------------------------------------ *)
StoreIdle ==
    /\ entes = {}
    /\ fuentes = {}
    /\ propuestas = {}
    /\ versiones = {}
    /\ candado = SinCandado
    /\ use_ai = FALSE
    /\ pc = [w \in Writers |-> "idle"]
    /\ req = [w \in Writers |-> TuplaNula]
    /\ intento = [w \in Writers |-> 0]
    /\ primera = [w \in Writers |-> "ninguna"]
    /\ res = [w \in Writers |-> SinResultado]
    /\ err = [w \in Writers |-> None]
    /\ pend = [w \in Writers |-> FilaNula]
    /\ ctx = [w \in Writers |-> CtxInicial({}, {}, TuplaNula)]

(* ------------------------------------------------------------------ *)
(* Database.get_or_create_ente / get_or_create_fuente                   *)
(* ------------------------------------------------------------------ *)
MaxLlamadas == 2        \* calls of get_or_create_* a caller makes

TablasCatalogo == {"entes", "fuentes_financiamiento"}
NombresCatalogo == {"FIDECIX", "ITEA"}

FilaCatalogo(id, nombre) == [id |-> id, nombre |-> nombre]
Llamada(tabla, nombre) == [tabla |-> tabla, nombre |-> nombre]

SinLlamada == Llamada("", "")
SinPendiente == FilaCatalogo(SinId, "")
SinExcepcion == ""

(* SELECT id FROM <tabla> WHERE nombre = ? *)
SelectPorNombre(filas, nombre) == {f \in filas : f.nombre = nombre}

CatIdle ==
    /\ g_tablas = [t \in TablasCatalogo |-> {}]
    /\ g_seq = [t \in TablasCatalogo |-> 0]
    /\ g_candado = 0
    /\ g_pc = [w \in Writers |-> "idle"]
    /\ g_llamada = [w \in Writers |-> SinLlamada]
    /\ g_llamadas = [w \in Writers |-> MaxLlamadas]
    /\ g_pend = [w \in Writers |-> SinPendiente]
    /\ g_ret = [w \in Writers |-> SinId]
    /\ g_err = [w \in Writers |-> SinExcepcion]

(* init_database has created the tables; a name may be there from an
   earlier run *)
CatInit ==
    /\ \E n \in 0..1 :
          /\ g_tablas = [t \in TablasCatalogo |->
                            {FilaCatalogo(i, "FIDECIX") : i \in 1..n}]
          /\ g_seq = [t \in TablasCatalogo |-> n]
    /\ g_candado = 0
    /\ g_pc = [w \in Writers |-> "idle"]
    /\ g_llamada = [w \in Writers |-> SinLlamada]
    /\ g_llamadas = [w \in Writers |-> 0]
    /\ g_pend = [w \in Writers |-> SinPendiente]
    /\ g_ret = [w \in Writers |-> SinId]
    /\ g_err = [w \in Writers |-> SinExcepcion]

(* a caller enters get_or_create_ente(nombre) or get_or_create_fuente(nombre):
   `with self.get_connection() as conn` *)
LlamarGetOrCreate(w) ==
    /\ g_pc[w] = "idle"
    /\ g_llamadas[w] < MaxLlamadas
    /\ \E t \in TablasCatalogo, n \in NombresCatalogo :
          g_llamada' = [g_llamada EXCEPT ![w] = Llamada(t, n)]
    /\ g_llamadas' = [g_llamadas EXCEPT ![w] = @ + 1]
    /\ g_pc' = [g_pc EXCEPT ![w] = "select"]
    /\ g_ret' = [g_ret EXCEPT ![w] = SinId]
    /\ g_err' = [g_err EXCEPT ![w] = SinExcepcion]
    /\ UNCHANGED <<g_tablas, g_seq, g_candado, g_pend, sinCat>>

(* lines 138-142 (156-160): the SELECT sees the committed rows; a row
   found is returned, and the connection commits nothing and closes *)
BuscarExistente(w) ==
    /\ g_pc[w] = "select"
    /\ LET filas == SelectPorNombre(g_tablas[g_llamada[w].tabla], g_llamada[w].nombre)
       IN IF filas # {}
              THEN /\ g_ret' = [g_ret EXCEPT ![w] = (CHOOSE f \in filas : TRUE).id]
                   /\ g_pc' = [g_pc EXCEPT ![w] = "fin"]
          ELSE /\ g_pc' = [g_pc EXCEPT ![w] = "insert"]
               /\ UNCHANGED g_ret
    /\ UNCHANGED <<g_tablas, g_seq, g_candado, g_llamada, g_llamadas, g_pend, g_err, sinCat>>

(* lines 145-148 (163-166): the INSERT takes the write lock; `nombre TEXT
   UNIQUE` (lines 44, 53) rejects a name committed since the SELECT, the
   exception leaves the `with`, which rolls back and raises it again *)
CrearNuevo(w) ==
    /\ g_pc[w] = "insert"
    /\ g_candado = 0
    /\ LET t == g_llamada[w].tabla
           n == g_llamada[w].nombre
       IN IF SelectPorNombre(g_tablas[t], n) # {}
              THEN /\ g_err' = [g_err EXCEPT ![w] = "IntegrityError"]
                   /\ g_pc' = [g_pc EXCEPT ![w] = "fin"]
                   /\ UNCHANGED <<g_candado, g_pend>>
          ELSE /\ g_pend' = [g_pend EXCEPT ![w] = FilaCatalogo(g_seq[t] + 1, n)]
               /\ g_candado' = w
               /\ g_pc' = [g_pc EXCEPT ![w] = "commit"]
               /\ UNCHANGED g_err
    /\ UNCHANGED <<g_tablas, g_seq, g_llamada, g_llamadas, g_ret, sinCat>>

(* the INSERT while another connection holds the write lock for longer
   than the busy timeout of sqlite3.connect (line 24): "database is
   locked" *)
CrearNuevoBloqueado(w) ==
    /\ g_pc[w] = "insert"
    /\ g_candado \notin {0, w}
    /\ g_err' = [g_err EXCEPT ![w] = "OperationalError"]
    /\ g_pc' = [g_pc EXCEPT ![w] = "fin"]
    /\ UNCHANGED <<g_tablas, g_seq, g_candado, g_llamada, g_llamadas, g_pend, g_ret, sinCat>>

(* line 149 (167): `return cursor.lastrowid` leaves the `with`:
   conn.commit() (line 27) and close *)
CommitGetOrCreate(w) ==
    /\ g_pc[w] = "commit"
    /\ g_candado = w
    /\ LET t == g_llamada[w].tabla
       IN /\ g_tablas' = [g_tablas EXCEPT ![t] = @ \cup {g_pend[w]}]
          /\ g_seq' = [g_seq EXCEPT ![t] = g_pend[w].id]
          /\ g_ret' = [g_ret EXCEPT ![w] = g_pend[w].id]
    /\ g_pend' = [g_pend EXCEPT ![w] = SinPendiente]
    /\ g_candado' = 0
    /\ g_pc' = [g_pc EXCEPT ![w] = "fin"]
    /\ UNCHANGED <<g_llamada, g_llamadas, g_err, sinCat>>

(* the caller has the id or the exception and goes on *)
VolverGetOrCreate(w) ==
    /\ g_pc[w] = "fin"
    /\ g_pc' = [g_pc EXCEPT ![w] = "idle"]
    /\ UNCHANGED <<g_tablas, g_seq, g_candado, g_llamada, g_llamadas, g_pend, g_ret, g_err, sinCat>>

CatNext ==
    \E w \in Writers :
        \/ LlamarGetOrCreate(w)
        \/ BuscarExistente(w)
        \/ CrearNuevo(w)
        \/ CrearNuevoBloqueado(w)
        \/ CommitGetOrCreate(w)
        \/ VolverGetOrCreate(w)

(* the components added to the store, the fingerprint and the documents,
   none of them in use *)
OtrasIdle ==
    EstrIdle /\ MetaIdle /\ ValIdle /\ ConsIdle /\ BatchIdle /\ JuezIdle /\ CatIdle

(* the store and its writers *)
Init == StoreInit /\ HashIdle /\ DocIdle /\ OtrasIdle
Next == StoreNext
Spec == Init /\ [][Next]_vars

(* the fingerprint function *)
InitHash == HashInit /\ StoreIdle /\ DocIdle /\ OtrasIdle
SpecHash == InitHash /\ [][HashNext]_vars

(* the document pipeline *)
InitDoc == DocInit /\ StoreIdle /\ HashIdle /\ OtrasIdle
SpecDoc == InitDoc /\ [][DocNext]_vars

(* the structural extraction of one document *)
InitEstr ==
    EstrInit /\ StoreIdle /\ HashIdle /\ DocIdle /\ MetaIdle /\ ValIdle /\ ConsIdle /\ BatchIdle /\ JuezIdle
        /\ CatIdle
SpecEstr == InitEstr /\ [][EstrNext]_vars

(* the metadata of one file name *)
InitMeta ==
    MetaInit /\ StoreIdle /\ HashIdle /\ DocIdle /\ EstrIdle /\ ValIdle /\ ConsIdle /\ BatchIdle /\ JuezIdle
        /\ CatIdle
SpecMeta == InitMeta /\ [][MetaNext]_vars

(* the image validation of a run of files *)
InitVal ==
    ValIdle /\ StoreIdle /\ HashIdle /\ DocIdle /\ EstrIdle /\ MetaIdle /\ ConsIdle /\ BatchIdle /\ JuezIdle
        /\ CatIdle
SpecVal == InitVal /\ [][ValNext]_vars

(* the consolidation of a run of files *)
InitCons ==
    ConsIdle /\ StoreIdle /\ HashIdle /\ DocIdle /\ EstrIdle /\ MetaIdle /\ ValIdle
        /\ BatchIdle /\ JuezIdle /\ CatIdle
SpecCons == InitCons /\ [][ConsNext]_vars

(* one run of the batch processor *)
InitBatch ==
    BatchIdle /\ StoreIdle /\ HashIdle /\ DocIdle /\ EstrIdle /\ MetaIdle /\ ValIdle
        /\ ConsIdle /\ JuezIdle /\ CatIdle
SpecBatch == InitBatch /\ [][BatchNext]_vars

(* the semantic decision for one tuple *)
InitJuez ==
    JuezInit /\ StoreIdle /\ HashIdle /\ DocIdle /\ EstrIdle /\ MetaIdle /\ ValIdle
        /\ ConsIdle /\ BatchIdle /\ CatIdle
SpecJuez == InitJuez /\ [][JuezNext]_vars

(* concurrent callers of get_or_create_ente and get_or_create_fuente *)
InitCat ==
    CatInit /\ StoreIdle /\ HashIdle /\ DocIdle /\ EstrIdle /\ MetaIdle /\ ValIdle
        /\ ConsIdle /\ BatchIdle /\ JuezIdle
SpecCat == InitCat /\ [][CatNext]_vars

(* ------------------------------------------------------------------ *)
(* Properties                                                           *)
(* ------------------------------------------------------------------ *)
HashDeTupla(t) == calcular_hash(OrVacio(t.observacion_texto), t.propuesta_texto)

(* the committed rows with the tuple's fingerprint in the tuple's scope *)
FilasDeTupla(t) ==
    {f \in propuestas : /\ f.ente_id = t.ente_id
                        /\ f.fuente_financiamiento_id = t.fuente_id
                        /\ f.hash_contenido = HashDeTupla(t)}

OtrosQuietos(w) == \A v \in Writers \ {w} : pc[v] = "idle" /\ intento[v] = 0

(* C1 - Dedup idempotence: once a tuple was submitted (classified new or
   exact duplicate, the recommended store operation run) and is submitted
   again, the second submission is classified as an exact duplicate of the
   one row that holds the tuple's fingerprint in its scope, and the number
   of proposals is what it was when the second submission began. *)
C1_DedupIdempotence ==
    \A w \in Writers :
        ( /\ pc[w] = "done"
          /\ intento[w] = 2
          /\ primera[w] \in {"insertar", "exacto"}
          /\ OtrosQuietos(w) ) =>
            /\ res[w].es_duplicado_exacto
            /\ res[w].accion_recomendada = "marcar_duplicado"
            /\ Cardinality(FilasDeTupla(req[w])) = 1
            /\ \E f \in FilasDeTupla(req[w]) : res[w].propuesta_existente_id = f.id
            /\ Cardinality(propuestas) = ctx[w].cuenta0

(* C2 - Scope isolation: when an entity submits a text pair that another
   entity already holds, and its own scope is empty, the submission is
   classified new, insertar_propuesta succeeds and the entity gets its
   own row. *)
C2_ScopeIsolation ==
    \A w \in Writers :
        ( /\ pc[w] = "done"
          /\ ctx[w].en_alcance0 = 0
          /\ OtrosQuietos(w)
          /\ \E f \in propuestas :
                /\ f.ente_id # req[w].ente_id
                /\ f.observacion_texto = req[w].observacion_texto
                /\ f.propuesta_texto = req[w].propuesta_texto ) =>
            /\ res[w].accion_recomendada = "insertar"
            /\ err[w] = None
            /\ \E f \in FilasDeTupla(req[w]) :
                  /\ f.observacion_texto = req[w].observacion_texto
                  /\ f.propuesta_texto = req[w].propuesta_texto

(* the version numbers recorded for a proposal *)
VersionesDe(id) == {v.version : v \in {x \in versiones : x.propuesta_id = id}}

(* the update of a writer whose tuple was classified a new version and
   whose new fingerprint no other row holds has run to its end *)
ActualizacionHecha(w) ==
    /\ pc[w] = "done"
    /\ res[w].accion_recomendada = "crear_version"
    /\ OtrosQuietos(w)
    /\ \A f \in propuestas :
          f.id # res[w].propuesta_existente_id => f.hash_contenido # HashDeTupla(req[w])

(* C3 - Version monotonicity: an accepted new-version classification
   raises the row's version_actual by exactly 1 and appends a
   versiones_propuestas row with that number; the numbers recorded for a
   proposal are 1..version_actual, each once. *)
C3_VersionMonotonicity ==
    /\ \A w \in Writers :
          ActualizacionHecha(w) =>
            \E f \in propuestas :
                /\ f.id = res[w].propuesta_existente_id
                /\ f.version_actual = ctx[w].antes.version_actual + 1
                /\ f.version_actual \in VersionesDe(f.id)
    /\ \A f \in propuestas :
          /\ VersionesDe(f.id) = 1..f.version_actual
          /\ Cardinality({x \in versiones : x.propuesta_id = f.id}) = f.version_actual

(* no writer is between the write of a row and the end of its `with` *)
SinEscrituraEnCurso == \A w \in Writers : pc[w] \notin {"ins_version", "upd_version"}

(* C4 - Atomicity of a write: whenever no insertar_propuesta or
   actualizar_propuesta_con_version is in the middle of its write, every
   propuestas row has the snapshot of its present version with the same
   content, and every snapshot belongs to a row whose version it does not
   exceed: no row without its snapshot, no snapshot without its row
   change. *)
C4_AtomicWrite ==
    SinEscrituraEnCurso =>
        /\ \A f \in propuestas :
              \E v \in versiones :
                  /\ v.propuesta_id = f.id
                  /\ v.version = f.version_actual
                  /\ v.hash_contenido = f.hash_contenido
                  /\ v.observacion_texto = f.observacion_texto
                  /\ v.propuesta_texto = f.propuesta_texto
                  /\ v.observacion_html = f.observacion_html
                  /\ v.propuesta_html = f.propuesta_html
        /\ \A v \in versiones :
              \E f \in propuestas : f.id = v.propuesta_id /\ v.version <= f.version_actual

(* an insert has raised after its row was written, in the nested
   crear_version, and neither the row nor a snapshot of it is in the store *)
C4_Witness ==
    \E w \in Writers :
        /\ pc[w] = "done"
        /\ err[w] = "OperationalError"
        /\ ctx[w].propuesta_id # SinId
        /\ res[w].accion_recomendada = "insertar"
        /\ FilasDeTupla(req[w]) = {}
        /\ \A v \in versiones : v.propuesta_id # ctx[w].propuesta_id

MismaHuella(f, g) ==
    /\ f.ente_id = g.ente_id
    /\ f.fuente_financiamiento_id = g.fuente_financiamiento_id
    /\ f.hash_contenido = g.hash_contenido

(* C5 - No double rows under concurrent writers: no two propuestas rows
   share a fingerprint within one (entity, funding source) scope; this
   holds of the committed rows and of the rows written in transactions
   that are still open. *)
C5_NoDoubleRows ==
    /\ \A f, g \in propuestas : MismaHuella(f, g) => f.id = g.id
    /\ \A w \in Writers : \A f \in propuestas :
          (pend[w].id # SinId /\ MismaHuella(pend[w], f)) => pend[w].id = f.id
    /\ \A w, v \in Writers :
          (w # v /\ pend[w].id # SinId /\ pend[v].id # SinId) =>
              ~MismaHuella(pend[w], pend[v])

(* two writers have each run the check and then the insert for one
   fingerprint in one scope *)
C5_Witness ==
    \E w, v \in Writers :
        /\ w # v
        /\ pc[w] = "done" /\ pc[v] = "done"
        /\ res[w].accion_recomendada = "insertar"
        /\ res[v].accion_recomendada = "insertar"
        /\ req[w].ente_id = req[v].ente_id
        /\ req[w].fuente_id = req[v].fuente_id
        /\ HashDeTupla(req[w]) = HashDeTupla(req[v])
        /\ ctx[w].propuesta_id # SinId
        /\ err[v] = "OperationalError"

(* C6 - Fingerprint distinctness: two text pairs over an alphabet with
   '|' that have the same fingerprint are the same pair. *)
C6_FingerprintDistinct ==
    (huella1 # SinHuella /\ huella2 # SinHuella /\ huella1 = huella2) => par1 = par2

(* verificar_propuesta has ended for a tuple without an exact match whose
   every judgment was unavailable or failed *)
JuezFallido(w) ==
    /\ ctx[w].juez = "fallido"
    /\ pc[w] # "semantic"
    /\ FilasDeTupla(req[w]) = {}

(* C7 - Degradation without the judge: when no credential is configured,
   or every judgment raises, is not parseable, or lacks or mistypes its
   fields, verificar_propuesta raises nothing, scores 0 and classifies a
   tuple without an exact match as new. *)
C7_Degradation ==
    \A w \in Writers :
        JuezFallido(w) =>
            /\ res[w].excepcion = None
            /\ res[w].accion_recomendada = "insertar"
            /\ res[w].similitud = 0
            /\ ~res[w].es_duplicado_semantico
            /\ ~res[w].es_nueva_version

(* C8 - Effect of a new-version update: after
   actualizar_propuesta_con_version on a proposal at version 1 with
   different content, the row count is unchanged, the row keeps id, entity
   and funding source, holds the new texts, markup and fingerprint at
   version 2, and exactly one snapshot was added, of the new state. *)
C8_NewVersionEffect ==
    \A w \in Writers :
        (ActualizacionHecha(w) /\ ctx[w].antes.version_actual = 1
                /\ ctx[w].antes.hash_contenido # HashDeTupla(req[w])) =>
            /\ Cardinality(propuestas) = ctx[w].cuenta0
            /\ Cardinality(versiones) = ctx[w].versiones0 + 1
            /\ \E f \in propuestas :
                  /\ f = FilaActualizada(ctx[w].antes, req[w], 2)
                  /\ f.id = ctx[w].antes.id
                  /\ f.ente_id = ctx[w].antes.ente_id
                  /\ f.fuente_financiamiento_id = ctx[w].antes.fuente_financiamiento_id
                  /\ VersionDeFila(f, "Actualización") \in versiones

(* the document was opened and its structural extraction returned *)
Procesado == dpc \in {"stats", "fin"} /\ doc.abre /\ ~doc.estructura_falla

(* C9 - Fallback iff empty: for a DOCX and for an XLSX document,
   extraer_con_openai is called if and only if the structural extraction
   gave no candidate. *)
C9_FallbackIff ==
    Procesado => (Len(llamadas) > 0 <=> doc.filas_clave = 0)

(* C10 - Fallback non-crash: when the service is unconfigured, its call
   fails or its answer is malformed, every extraer_con_openai returns the
   empty list, and the document with an empty structural result ends with
   extraccion_exitosa = true and zero proposals. *)
C10_FallbackNonCrash ==
    ( /\ dpc = "fin"
      /\ doc.abre
      /\ doc.filas_clave = 0
      /\ \A i \in 1..Len(llamadas) :
            \/ ~llamadas[i].cliente
            \/ llamadas[i].respuesta.kind # "lista"
            \/ \E j \in 1..Len(llamadas[i].respuesta.items) :
                  LET item == llamadas[i].respuesta.items[j]
                  IN \/ item.tipo # "objeto"
                     \/ item.propuesta \in {"falta", "no_texto"}
                     \/ item.observacion = "no_texto" ) =>
        /\ salida.extraccion_exitosa
        /\ salida.total_propuestas = 0
        /\ \A i \in 1..Len(llamadas) : llamadas[i].devuelve = <<>>

(* C11 - Non-empty proposal text: every candidate emitted for a document
   has a propuesta_texto that is not empty. *)
C11_NonEmptyProposal ==
    \A i \in 1..Len(e_props) : e_props[i].propuesta_texto # TextoVacio

(* content cells: sentences, none of them a keyword label *)
CeldasTexto ==
    {Celda(<<"Se", "corrigió">>, "no"), Celda(<<"Presentar", "evidencia">>, "no"),
     Celda(<<"Atendió", "la", "observación">>, "no")}

(* the row read is: observation keyword, content O, proposal keyword,
   content P, and it is the first row of the document *)
FilaDeCuatro ==
    /\ e_tipo = "DOCX"
    /\ e_filas = 1
    /\ Len(e_fila) = 4
    /\ e_fila[1] = Celda(<<"Observación">>, "no")
    /\ e_fila[3] = Celda(<<"Propuesta", "de", "Solventación">>, "no")
    /\ e_fila[2] \in CeldasTexto
    /\ e_fila[4] \in CeldasTexto

(* C12 - Keyword row: a row of observation keyword, content O, proposal
   keyword, content P gives exactly one candidate, with observation O and
   proposal P, numbered 1 when it is the first such row. *)
C12_KeywordRow ==
    FilaDeCuatro =>
        e_props = <<Propuesta(1, e_fila[2].texto, e_fila[4].texto, "estructurado")>>

(* C20 - Candidate numbering: the numero values of the candidates of one
   document are 1, 2, ..., n in the order of the list, on the structural
   and on the fallback path of both document kinds. *)
C20_Numbering ==
    (dpc = "fin" /\ salida.extraccion_exitosa) =>
        \A i \in 1..Len(dprops) : dprops[i].numero = i

(* C13 - File name example: for "12.FIDECIX_RRyPE_ENE_JUN_SA.docx"
   analizar_archivo gives entity FIDECIX, funding sources ["SA"], period
   "ENE_JUN" and document type "RRyPE". *)
C13_FilenameExample ==
    (m_nombre = NombreEjemplo /\ SinCalcular \notin {m_ente, m_periodo, m_tipo}
            /\ m_fuentes # <<SinCalcular>>) =>
        /\ m_ente = ENTES_CONOCIDOS[1]
        /\ m_fuentes = <<FUENTES_FINANCIAMIENTO[1]>>
        /\ m_periodo = meses[1] \o <<"_">> \o meses[6]
        /\ m_tipo = tipos_conocidos[1]

ValidadoDocx == v_pc = "validado" /\ v_contenido \in ContenidosDocx

(* C14 - Image validation of a DOCX file: with zero images the status is
   "VÁLIDO" and no proposal is flagged; with at least one image and at
   least one proposal the status is "ADVERTENCIA" and every proposal of the
   document is in propuestas_con_imagenes, in order; the status is never
   "ERROR" for DOCX or XLSX; validar_archivo leaves the proposals of
   contenido_extraido as they were. *)
C14_ImageValidation ==
    /\ [](ValidadoDocx =>
            /\ Len(v_contenido.imagenes) = 0 =>
                   v_reporte.estado = "VÁLIDO" /\ v_reporte.propuestas_con_imagenes = <<>>
            /\ (Len(v_contenido.imagenes) > 0 /\ Len(v_contenido.propuestas) > 0) =>
                   /\ v_reporte.estado = "ADVERTENCIA"
                   /\ Len(v_reporte.propuestas_con_imagenes) = Len(v_contenido.propuestas)
                   /\ \A i \in 1..Len(v_contenido.propuestas) :
                          v_reporte.propuestas_con_imagenes[i].numero
                              = v_contenido.propuestas[i].numero)
    /\ []((v_pc = "validado" /\ v_contenido \in ContenidosDocx \cup ContenidosXlsx) =>
            v_reporte.estado \in {"VÁLIDO", "ADVERTENCIA"})
    /\ [][v_pc = "extraido" => v_contenido' = v_contenido]_vars

C14_Witness ==
    /\ ValidadoDocx
    /\ Len(v_contenido.imagenes) > 0
    /\ Len(v_contenido.propuestas) = MaxPropuestas
    /\ Len(v_reporte.propuestas_con_imagenes) = MaxPropuestas

(* the records of datos that follow the first n *)
Nuevos(datos, n) == SubSeq(datos, n + 1, Len(datos))

(* C15 - Consolidation multiplicity: a call of agregar_datos_archivo for a
   file with F funding sources and P proposals keeps the records there
   were and appends exactly P*F records, one per proposal and funding
   source, when P > 0, and exactly F placeholder records, one per funding
   source, when P = 0; at least one record of the file is appended. *)
C15_Multiplicity ==
    [][c_pc = "extraido" =>
        LET F == Len(c_archivo.fuentes)
            P == Len(c_archivo.propuestas)
            nuevos == Nuevos(c_datos', Len(c_datos))
            De(numero, fuente) ==
                {i \in 1..Len(nuevos) :
                    /\ nuevos[i].numero = numero
                    /\ nuevos[i].fuente = fuente
                    /\ nuevos[i].archivo_origen = c_archivo.nombre_archivo}
        IN /\ SubSeq(c_datos', 1, Len(c_datos)) = c_datos
           /\ Len(nuevos) >= 1
           /\ P > 0 =>
                 /\ Len(nuevos) = P * F
                 /\ \A p \in 1..P, j \in 1..F :
                        Cardinality(De(c_archivo.propuestas[p].numero, c_archivo.fuentes[j])) = 1
           /\ P = 0 =>
                 /\ Len(nuevos) = F
                 /\ \A j \in 1..F : Cardinality(De(SinNumero, c_archivo.fuentes[j])) = 1
                 /\ \A i \in 1..F : nuevos[i].observacion = "Sin propuestas detectadas"]_vars

C15_Witness ==
    /\ c_pc = "agregado"
    /\ Len(c_archivo.fuentes) = MaxFuentes
    /\ Len(c_archivo.propuestas) = MaxPropuestas
    /\ Len(c_datos) = 2 * MaxFuentes * MaxPropuestas

(* C16 - Batch isolation and counting: after procesar_todos every file
   found has a result, archivos_exitosos + archivos_con_error =
   total_archivos, and archivos_exitosos is the number of results with
   exito = true. *)
C16_BatchCounting ==
    (b_pc = "fin" /\ b_archivos # <<>>) =>
        /\ Len(b_resultados) = Len(b_archivos)
        /\ b_stats.archivos_exitosos + b_stats.archivos_con_error = b_stats.total_archivos
        /\ b_stats.archivos_exitosos
              = Cardinality({i \in 1..Len(b_resultados) : b_resultados[i].exito})

(* the insert of a writer whose tuple was classified new and whose
   fingerprint no row of the store holds has run to its end *)
InsercionHecha(w) ==
    /\ pc[w] = "done"
    /\ res[w].accion_recomendada = "insertar"
    /\ OtrosQuietos(w)
    /\ ctx[w].propuesta_id # SinId
    /\ \A f \in propuestas :
          f.id # ctx[w].propuesta_id => f.hash_contenido # HashDeTupla(req[w])

(* C17 - Version history is append-only: no step of a store operation
   modifies or removes a versiones_propuestas row, and an accepted insert
   and an accepted version update each add exactly one row. *)
C17_AppendOnly ==
    /\ [][versiones \subseteq versiones']_vars
    /\ [](\A w \in Writers :
            (InsercionHecha(w) \/ ActualizacionHecha(w)) =>
                Cardinality(versiones) = ctx[w].versiones0 + 1)

(* the judgment of the i-th row of the scope as verificar_propuesta gets
   it *)
JuicioDe(i) == detectar_duplicado_con_ia(j_use_ai, j_juicio[j_filas[i]])

(* the rows whose judgment has the highest score *)
MejoresJuicios ==
    {i \in 1..Len(j_filas) :
        \A k \in 1..Len(j_filas) : JuicioDe(k).similitud.v <= JuicioDe(i).similitud.v}

(* the classification the judgment of row i asks for *)
SegunJuicio(i) ==
    IF JuicioDe(i).similitud.v >= 95 /\ Truthy(JuicioDe(i).es_duplicado)
        THEN /\ j_res.es_duplicado_semantico /\ ~j_res.es_nueva_version
             /\ j_res.accion_recomendada = "marcar_duplicado"
             /\ j_res.propuesta_existente_id = j_filas[i]
    ELSE IF JuicioDe(i).similitud.v >= 70 /\ Truthy(JuicioDe(i).es_version)
        THEN /\ j_res.es_nueva_version /\ ~j_res.es_duplicado_semantico
             /\ j_res.accion_recomendada = "crear_version"
             /\ j_res.propuesta_existente_id = j_filas[i]
    ELSE /\ ~j_res.es_duplicado_semantico /\ ~j_res.es_nueva_version
         /\ j_res.accion_recomendada = "insertar"
         /\ j_res.propuesta_existente_id = SinId

(* C18 - Semantic decision: with no exact match, verificar_propuesta
   classifies by a best-scoring judgment over the rows of the scope:
   semantic duplicate of that row iff its score is >= 95 and it marks a
   duplicate; otherwise new version of that row iff its score is >= 70 and
   it marks a version; otherwise new, with no existing id.  It is never an
   exact duplicate and nothing is raised. *)
C18_SemanticDecision ==
    j_pc = "done" =>
        /\ j_res.excepcion = None
        /\ ~j_res.es_duplicado_exacto
        /\ IF j_filas = <<>>
               THEN /\ j_res.accion_recomendada = "insertar"
                    /\ j_res.propuesta_existente_id = SinId
                    /\ ~j_res.es_duplicado_semantico /\ ~j_res.es_nueva_version
           ELSE \E i \in MejoresJuicios : SegunJuicio(i)

(* the second row of the scope has the best judgment, 95 and a duplicate,
   and the tuple is a semantic duplicate of it *)
C18_Witness ==
    /\ j_pc = "done"
    /\ Len(j_filas) = MaxAlcance
    /\ MejoresJuicios = {2}
    /\ JuicioDe(2).similitud.v = 95
    /\ j_res.es_duplicado_semantico
    /\ j_res.propuesta_existente_id = j_filas[2]

(* writer w calls verificar_propuesta in this step *)
LlamaVerificar(w) == intento'[w] > intento[w]

(* C19 - Exact match takes precedence: whenever verificar_propuesta is
   called for a tuple whose fingerprint a row of its (entity, funding
   source) scope holds, it returns the exact-duplicate classification
   against that row in that step, the judge is not asked, whether or not it
   is configured, and no table is written. *)
C19_ExactPrecedence ==
    [][\A w \in Writers :
          (LlamaVerificar(w) /\ FilasDeTupla(req'[w]) # {}) =>
              /\ res'[w].es_duplicado_exacto
              /\ ~res'[w].es_duplicado_semantico /\ ~res'[w].es_nueva_version
              /\ res'[w].accion_recomendada = "marcar_duplicado"
              /\ res'[w].excepcion = None
              /\ \E f \in FilasDeTupla(req'[w]) : res'[w].propuesta_existente_id = f.id
              /\ pc'[w] = "done"
              /\ ctx'[w].juez = "sin_juicio"
              /\ propuestas' = propuestas /\ versiones' = versiones
              /\ pend' = pend /\ candado' = candado]_vars

(* with the judge configured, a first submission of a tuple that a row of
   its scope holds has returned an exact duplicate *)
C19_Witness ==
    \E w \in Writers :
        /\ use_ai
        /\ pc[w] = "done" /\ intento[w] = 1
        /\ FilasDeTupla(req[w]) # {}
        /\ res[w].es_duplicado_exacto
        /\ ctx[w].juez = "sin_juicio"

(* the cell's normalised text holds both tokens of the proposal keyword *)
EsClaveDocx(celda) ==
    /\ Contiene(normalizar_texto(celda.texto), "PROPUESTA")
    /\ Contiene(normalizar_texto(celda.texto), "SOLVENTACION")

(* the cell has text or a nested table *)
ConContenido(celda) == celda.texto # TextoVacio \/ celda.anidada # "no"

(* the first row of a DOCX table was read and its last cell is a keyword
   cell *)
ClaveAlFinal ==
    /\ e_tipo = "DOCX" /\ e_filas = 1 /\ e_fila # FilaNinguna
    /\ \/ EsClaveDocx(e_fila[Len(e_fila)])
       \/ Contiene(normalizar_texto(e_fila[Len(e_fila)].texto), "OBSERVACION")

(* C21 - A keyword cell with no following cell is skipped without effect:
   a row whose last cell is a keyword cell yields a candidate exactly when
   some proposal-keyword cell of the row is followed by a cell with
   content. *)
C21_LastCellSkipped ==
    ClaveAlFinal =>
        (Len(e_props) = 1 <=>
            \E k \in 1..(Len(e_fila) - 1) :
                EsClaveDocx(e_fila[k]) /\ ConContenido(e_fila[k + 1]))

(* the known type tokens the file name contains as they are written *)
TiposEnNombre == {k \in 1..Len(tipos_conocidos) : In(tipos_conocidos[k], m_nombre)}

(* C22 - Document type extraction: extraer_tipo_documento gives
   "REA_RRyPE" when the file name contains both REA and RRyPE, the one
   known type token the name contains when it contains one, and "GENERAL"
   when it contains none in any case. *)
C22_DocumentType ==
    m_tipo # SinCalcular =>
        /\ {1, 2} \subseteq TiposEnNombre => m_tipo = ReaRrype
        /\ \A k \in 1..Len(tipos_conocidos) :
               TiposEnNombre = {k} => m_tipo = tipos_conocidos[k]
        /\ (\A k \in 1..Len(tipos_conocidos) :
               ~In(StrUpper(tipos_conocidos[k]), StrUpper(m_nombre))) => m_tipo = General

ValidadoXlsx ==
    /\ v_pc = "validado"
    /\ v_contenido \in ContenidosXlsx
    /\ SumaHojas(v_contenido.hojas, 1) > 0

(* the images of the sheet of a proposal whose anchor row is within the
   window of the row of the proposal *)
CercanasDe(propuesta) ==
    {k \in 1..Len(v_contenido.hojas[propuesta.hoja]) :
        /\ propuesta.fila # SinFila
        /\ Abs(v_contenido.hojas[propuesta.hoja][k] - propuesta.fila) <= VentanaFilas}

(* C23 - Image validation of an XLSX file with at least one image: a
   proposal is in propuestas_con_imagenes exactly when its sheet holds at
   least one image; the status is "ADVERTENCIA" exactly when some proposal
   is flagged and "VÁLIDO" otherwise; imagenes_cercanas of a flagged
   proposal is the number of images of its sheet whose anchor row is within
   10 rows of the row of the proposal, and it decides neither the status
   nor which proposals are flagged. *)
C23_XlsxImageValidation ==
    ValidadoXlsx =>
        /\ \A i \in 1..Len(v_contenido.propuestas) :
               (\E j \in 1..Len(v_reporte.propuestas_con_imagenes) :
                    v_reporte.propuestas_con_imagenes[j].numero = v_contenido.propuestas[i].numero)
               <=> Len(v_contenido.hojas[v_contenido.propuestas[i].hoja]) > 0
        /\ v_reporte.estado = "ADVERTENCIA" <=> v_reporte.propuestas_con_imagenes # <<>>
        /\ v_reporte.estado = "VÁLIDO" <=> v_reporte.propuestas_con_imagenes = <<>>
        /\ v_reporte.tiene_imagenes_en_propuestas <=> v_reporte.propuestas_con_imagenes # <<>>
        /\ \A j \in 1..Len(v_reporte.propuestas_con_imagenes) :
               LET anotada == v_reporte.propuestas_con_imagenes[j]
               IN /\ anotada.numero \in 1..Len(v_contenido.propuestas)
                  /\ anotada.hoja = v_contenido.propuestas[anotada.numero].hoja
                  /\ anotada.imagenes_cercanas
                         = Cardinality(CercanasDe(v_contenido.propuestas[anotada.numero]))

(* a flagged proposal with no image near it beside an unflagged one *)
C23_Witness ==
    /\ ValidadoXlsx
    /\ Len(v_contenido.propuestas) = 2
    /\ Len(v_reporte.propuestas_con_imagenes) = 1
    /\ v_reporte.propuestas_con_imagenes[1].imagenes_cercanas = 0
    /\ v_reporte.propuestas_con_imagenes[1].fila # SinFila
    /\ v_reporte.estado = "ADVERTENCIA"

(* a row with a proposal-keyword cell followed by a cell with content *)
FilaConPropuestaXlsx(fila) ==
    \E k \in 1..(Len(fila) - 1) :
        EsClavePropuesta(fila[k]) /\ limpiar_texto(fila[k + 1]) # TextoVacio

(* C24 - The XLSX structural extractor skips no occurrence: every row of a
   sheet with a proposal-keyword cell followed by content yields a
   candidate, the first such row of the sheet and a match in the first row
   of the sheet included. *)
C24_NoOccurrenceSkipped ==
    [][e_tipo = "XLSX" =>
          /\ (e_bloque' = e_bloque + 1 /\ FilaConPropuestaXlsx(e_cabecera'))
                 => Len(e_props') = Len(e_props) + 1
          /\ (e_filas' = e_filas + 1 /\ FilaConPropuestaXlsx(e_fila'))
                 => Len(e_props') = Len(e_props) + 1]_vars

(* docx 263: "OBSERVACION" in cell_text_norm *)
EsObservacionDocx(celda) == Contiene(normalizar_texto(celda.texto), "OBSERVACION")

(* C25 - Keyword recognition is the same for both kinds of document: a
   cell text is a proposal keyword exactly when its upper-cased,
   accent-stripped text contains both PROPUESTA and SOLVENTACION, and an
   observation keyword exactly when it contains OBSERVACION; the XLSX
   extractor and the DOCX extractor agree on every cell text. *)
C25_KeywordRecognition ==
    (e_tipo = "XLSX" /\ e_fila # FilaNinguna) =>
        \A k \in 1..Len(e_fila) :
            e_fila[k].t = "str" =>
                /\ EsClavePropuesta(e_fila[k])
                       <=> /\ Contiene(normalizar_texto(e_fila[k].texto), "PROPUESTA")
                           /\ Contiene(normalizar_texto(e_fila[k].texto), "SOLVENTACION")
                /\ EsClaveObservacion(e_fila[k])
                       <=> Contiene(normalizar_texto(e_fila[k].texto), "OBSERVACION")
                /\ EsClavePropuesta(e_fila[k]) <=> EsClaveDocx(Celda(e_fila[k].texto, "no"))
                /\ EsClaveObservacion(e_fila[k])
                       <=> EsObservacionDocx(Celda(e_fila[k].texto, "no"))

(* C26 - get_or_create_ente and get_or_create_fuente under any interleaving
   of concurrent callers: a table never holds two rows with one name; a
   call that has returned raised nothing and returned the id of the row
   with its name; rows with distinct names have distinct ids; no row is
   deleted or renamed. *)
C26_GetOrCreate ==
    /\ [](\A t \in TablasCatalogo : \A f1, f2 \in g_tablas[t] :
             (f1.nombre = f2.nombre <=> f1.id = f2.id))
    /\ [](\A w \in Writers :
             g_pc[w] = "fin" =>
                 /\ g_err[w] = SinExcepcion
                 /\ FilaCatalogo(g_ret[w], g_llamada[w].nombre) \in g_tablas[g_llamada[w].tabla])
    /\ [][\A t \in TablasCatalogo : g_tablas[t] \subseteq g_tablas'[t]]_vars

(* the rows of propuestas a connection can read: the committed ones and the
   row written in a transaction that is still open *)
FilasEscritas ==
    propuestas \cup {pend[w] : w \in {x \in Writers : pend[x].id # SinId}}

(* C27 - Fingerprint and snapshot consistency: every propuestas row has
   hash_contenido = calcular_hash(observacion_texto or '', propuesta_texto)
   of its own texts, and for every committed row the versiones_propuestas
   row with version = version_actual exists and has the same two texts, the
   same two markups and the same hash_contenido. *)
C27_RowConsistency ==
    /\ \A f \in FilasEscritas :
           f.hash_contenido = calcular_hash(OrVacio(f.observacion_texto), f.propuesta_texto)
    /\ \A f \in propuestas :
           FilaVersion(f.id, f.version_actual, f.observacion_texto, f.propuesta_texto,
                       f.observacion_html, f.propuesta_html,
                       calcular_hash(OrVacio(f.observacion_texto), f.propuesta_texto),
                       "Versión inicial") \in versiones
           \/ FilaVersion(f.id, f.version_actual, f.observacion_texto, f.propuesta_texto,
                          f.observacion_html, f.propuesta_html,
                          calcular_hash(OrVacio(f.observacion_texto), f.propuesta_texto),
                          "Actualización") \in versiones

(* the UPDATE of a version update has rewritten the texts of a committed
   row whose fingerprint was another *)
C27_Witness ==
    \E w \in Writers :
        /\ pc[w] = "upd_version"
        /\ pend[w].id # SinId
        /\ pend[w].version_actual = ctx[w].antes.version_actual + 1
        /\ pend[w].hash_contenido # ctx[w].antes.hash_contenido
        /\ \E f \in propuestas : f.id = pend[w].id /\ f # pend[w]

(* verificar_propuesta has returned a result to writer w *)
Devuelto(w) == pc[w] \notin {"idle", "semantic"} /\ res[w].excepcion = None

Banderas(r) ==
    {b \in {"exacto", "semantico", "version"} :
        \/ b = "exacto" /\ r.es_duplicado_exacto
        \/ b = "semantico" /\ r.es_duplicado_semantico
        \/ b = "version" /\ r.es_nueva_version}

(* C28 - The result of verificar_propuesta is well-formed: at most one of
   es_duplicado_exacto, es_duplicado_semantico and es_nueva_version is
   true; accion_recomendada is 'marcar_duplicado' exactly when a duplicate
   flag is true, 'crear_version' exactly when es_nueva_version is true and
   'insertar' exactly when no flag is true; propuesta_existente_id is null
   exactly when the action is 'insertar', and otherwise it is the id of a
   row of propuestas of the entity and funding source submitted. *)
C28_WellFormedResult ==
    \A w \in Writers :
        Devuelto(w) =>
            LET r == res[w]
            IN /\ Cardinality(Banderas(r)) <= 1
               /\ r.accion_recomendada \in {"insertar", "marcar_duplicado", "crear_version"}
               /\ r.accion_recomendada = "marcar_duplicado"
                      <=> (r.es_duplicado_exacto \/ r.es_duplicado_semantico)
               /\ r.accion_recomendada = "crear_version" <=> r.es_nueva_version
               /\ r.accion_recomendada = "insertar" <=> Banderas(r) = {}
               /\ r.propuesta_existente_id = SinId <=> r.accion_recomendada = "insertar"
               /\ r.propuesta_existente_id # SinId =>
                      \E f \in propuestas :
                          /\ f.id = r.propuesta_existente_id
                          /\ f.ente_id = req[w].ente_id
                          /\ f.fuente_financiamiento_id = req[w].fuente_id

(* the judge's answers made a writer's tuple a new version of a row *)
C28_Witness ==
    \E w \in Writers :
        /\ Devuelto(w)
        /\ res[w].es_nueva_version
        /\ res[w].propuesta_existente_id # SinId
        /\ ctx[w].juez = "valido"

(* actualizar_propuesta_con_version has ended for writer w, called to
   replace the content of row ctx[w].antes by a tuple with another
   fingerprint, one that no other row holds *)
Reemplazo(w) ==
    /\ pc[w] = "done"
    /\ res[w].accion_recomendada = "crear_version"
    /\ ctx[w].antes.id # SinId
    /\ ctx[w].antes.hash_contenido # HashDeTupla(req[w])
    /\ \A f \in propuestas :
          f.id # ctx[w].antes.id => f.hash_contenido # HashDeTupla(req[w])

(* t is the content row ctx[w].antes had before the update, in its scope *)
TuplaAnterior(w, t) ==
    /\ t.ente_id = ctx[w].antes.ente_id
    /\ t.fuente_id = ctx[w].antes.fuente_financiamiento_id
    /\ HashDeTupla(t) = ctx[w].antes.hash_contenido

(* C29 - Exact-duplicate detection looks only at the current fingerprint
   of a row: after a version update replaced content A of a row by A',
   the lookup of A in the same scope finds no row; a resubmission of A is
   not an exact duplicate and goes to the semantic step; with the judge
   unavailable it is classified new, and its insert leaves a second row
   with the fingerprint of A beside the updated one. *)
C29_CurrentFingerprintOnly ==
    /\ [](\A w \in Writers :
             Reemplazo(w) =>
                 buscar_propuesta_existente(propuestas, ctx[w].antes.hash_contenido,
                                            ctx[w].antes.ente_id,
                                            ctx[w].antes.fuente_financiamiento_id).id = SinId)
    /\ [][\A w, v \in Writers :
             (w # v /\ Reemplazo(w) /\ pc[v] = "idle" /\ pc'[v] # "idle"
                    /\ TuplaAnterior(w, req'[v]))
                 => pc'[v] = "semantic"]_vars
    /\ [][\A w, v \in Writers :
             (w # v /\ Reemplazo(w) /\ TuplaAnterior(w, req[v]) /\ ~use_ai
                    /\ pc[v] = "semantic" /\ pc'[v] # "semantic")
                 => res'[v].accion_recomendada = "insertar"]_vars
    /\ [][\A w, v \in Writers :
             (w # v /\ Reemplazo(w) /\ TuplaAnterior(w, req[v])
                    /\ pc[v] = "ins_version" /\ pc'[v] = "done")
                 => \E f \in propuestas' :
                        /\ f.id # ctx[w].antes.id
                        /\ f.ente_id = ctx[w].antes.ente_id
                        /\ f.fuente_financiamiento_id = ctx[w].antes.fuente_financiamiento_id
                        /\ f.hash_contenido = ctx[w].antes.hash_contenido]_vars

(* C30 - A failed file leaves no trace in the totals: when the result of a
   file has exito = false, whichever step raised, the saving of its
   individual result included, the processing of that file adds no record
   to the consolidated data, leaves total_propuestas and archivos_exitosos
   as they were, and adds one to archivos_con_error. *)
C30_FailedFileCounts ==
    [][(Len(b_resultados') = Len(b_resultados) + 1
            /\ ~b_resultados'[Len(b_resultados')].exito) =>
          /\ b_datos' = b_datos
          /\ b_stats'.total_propuestas = b_stats.total_propuestas
          /\ b_stats'.archivos_exitosos = b_stats.archivos_exitosos
          /\ b_stats'.archivos_con_error = b_stats.archivos_con_error + 1]_vars

====
